---- MODULE Spec2Model ----
(***************************************************************************)
(* word-of-wisdom: a TCP server that hands out a quote after a SHA-256     *)
(* proof of work.  The module models                                        *)
(*   - the PoW engine (internal/pow/sha256.go) down to the SHA-256 digest,  *)
(*   - the protocol handler (internal/app/handler.go),                      *)
(*   - the server's accept loop and connection units (internal/app server), *)
(* Strings are sequences of byte values; a wire line carries its newline.   *)
(***************************************************************************)
EXTENDS Integers, Sequences, FiniteSets, TLC

(***************************************************************************)
(* Bounds of the model.                                                     *)
(***************************************************************************)
MaxNonce == 10       \* PoW specification: solutions "0" .. "MaxNonce"
MaxDifficulty == 2   \* PoW specification: difficulties 0 .. MaxDifficulty

(***************************************************************************)
(* crypto/sha256.Sum256, FIPS 180-4.  A 32-bit word is a pair               *)
(* << high 16 bits, low 16 bits >> so that every intermediate value fits    *)
(* the model checker's integers.  Loops are recursive functions of the      *)
(* iteration count; the one-element set { F(x) : x \in {v} } holds F(v)     *)
(* with v computed once.                                                    *)
(***************************************************************************)
Xor4(a, b) ==
  ((a + b) % 2)
  + 2 * (((a \div 2) + (b \div 2)) % 2)
  + 4 * (((a \div 4) + (b \div 4)) % 2)
  + 8 * (((a \div 8) + (b \div 8)) % 2)

And4(a, b) ==
  ((a % 2) * (b % 2))
  + 2 * (((a \div 2) % 2) * ((b \div 2) % 2))
  + 4 * (((a \div 4) % 2) * ((b \div 4) % 2))
  + 8 * ((a \div 8) * (b \div 8))

XorNib == [a \in 0..15 |-> [b \in 0..15 |-> Xor4(a, b)]]

AndNib == [a \in 0..15 |-> [b \in 0..15 |-> And4(a, b)]]

Xor16(a, b) ==
  XorNib[a % 16][b % 16]
  + 16 * XorNib[(a \div 16) % 16][(b \div 16) % 16]
  + 256 * XorNib[(a \div 256) % 16][(b \div 256) % 16]
  + 4096 * XorNib[a \div 4096][b \div 4096]

And16(a, b) ==
  AndNib[a % 16][b % 16]
  + 16 * AndNib[(a \div 16) % 16][(b \div 16) % 16]
  + 256 * AndNib[(a \div 256) % 16][(b \div 256) % 16]
  + 4096 * AndNib[a \div 4096][b \div 4096]

WXor(x, y) == << Xor16(x[1], y[1]), Xor16(x[2], y[2]) >>

WAnd(x, y) == << And16(x[1], y[1]), And16(x[2], y[2]) >>

WNot(x) == << 65535 - x[1], 65535 - x[2] >>

\* addition modulo 2^32
WAdd(x, y) ==
  LET s == x[2] + y[2]
  IN << (x[1] + y[1] + (s \div 65536)) % 65536, s % 65536 >>

RotR(x, r) ==
  LET y == IF r >= 16 THEN << x[2], x[1] >> ELSE x
      k == IF r >= 16 THEN r - 16 ELSE r
      lo == 2 ^ k
      hi == 2 ^ (16 - k)
  IN << (y[1] \div lo) + (y[2] % lo) * hi, (y[2] \div lo) + (y[1] % lo) * hi >>

ShR(x, r) ==
  LET lo == 2 ^ r
      hi == 2 ^ (16 - r)
  IN << x[1] \div lo, (x[2] \div lo) + (x[1] % lo) * hi >>

SHA256_K ==
  <<
    <<17034, 12184>>, <<28983, 17553>>, <<46528, 64463>>, <<59829, 56229>>,
    <<14678, 49755>>, <<23025, 4593>>, <<37439, 33444>>, <<43804, 24277>>,
    <<55303, 43672>>, <<4739, 23297>>, <<9265, 34238>>, <<21772, 32195>>,
    <<29374, 23924>>, <<32990, 45566>>, <<39900, 1703>>, <<49563, 61812>>,
    <<58523, 27073>>, <<61374, 18310>>, <<4033, 40390>>, <<9228, 41420>>,
    <<11753, 11375>>, <<19060, 33962>>, <<23728, 43484>>, <<30457, 35034>>,
    <<38974, 20818>>, <<43057, 50797>>, <<45059, 10184>>, <<48985, 32711>>,
    <<50912, 3059>>, <<54695, 37191>>, <<1738, 25425>>, <<5161, 10599>>,
    <<10167, 2693>>, <<11803, 8504>>, <<19756, 28156>>, <<21304, 3347>>,
    <<25866, 29524>>, <<30314, 2747>>, <<33218, 51502>>, <<37490, 11397>>,
    <<41663, 59553>>, <<43034, 26187>>, <<49739, 35696>>, <<51052, 20899>>,
    <<53650, 59417>>, <<54937, 1572>>, <<62478, 13701>>, <<4202, 41072>>,
    <<6564, 49430>>, <<7735, 27656>>, <<10056, 30540>>, <<13488, 48309>>,
    <<14620, 3251>>, <<20184, 43594>>, <<23452, 51791>>, <<26670, 28659>>,
    <<29839, 33518>>, <<30885, 25455>>, <<33992, 30740>>, <<36039, 520>>,
    <<37054, 65530>>, <<42064, 27883>>, <<48889, 41975>>, <<50801, 30962>> >>

SHA256_H0 ==
  <<
    <<27145, 58983>>, <<47975, 44677>>, <<15470, 62322>>, <<42319, 62778>>,
    <<20750, 21119>>, <<39685, 26764>>, <<8067, 55723>>, <<23520, 52505>> >>

Ch(x, y, z) == WXor(WAnd(x, y), WAnd(WNot(x), z))

Maj(x, y, z) == WXor(WXor(WAnd(x, y), WAnd(x, z)), WAnd(y, z))

BigSigma0(x) == WXor(WXor(RotR(x, 2), RotR(x, 13)), RotR(x, 22))

BigSigma1(x) == WXor(WXor(RotR(x, 6), RotR(x, 11)), RotR(x, 25))

SmallSigma0(x) == WXor(WXor(RotR(x, 7), RotR(x, 18)), ShR(x, 3))

SmallSigma1(x) == WXor(WXor(RotR(x, 17), RotR(x, 19)), ShR(x, 10))

\* number of zero bytes between the 0x80 marker and the 8-byte bit length
PadZeros(len) == (119 - (len % 64)) % 64

LenBytes(len) ==
  LET bits == len * 8
  IN << 0, 0, 0, 0, (bits \div 16777216) % 256, (bits \div 65536) % 256,
        (bits \div 256) % 256, bits % 256 >>

Pad(data) ==
  data \o << 128 >> \o [i \in 1..PadZeros(Len(data)) |-> 0] \o LenBytes(Len(data))

\* the 16 big-endian words of block number blk (from 0) of the padded message
BlockWords(padded, blk) ==
  [i \in 1..16 |->
     LET o == 64 * blk + 4 * (i - 1)
     IN << padded[o + 1] * 256 + padded[o + 2], padded[o + 3] * 256 + padded[o + 4] >>]

\* one step of the message schedule: appends W[t] for t = Len(w) + 1
Sched1(words) ==
  CHOOSE r \in
    { Append(w, WAdd(WAdd(SmallSigma1(w[Len(w) - 1]), w[Len(w) - 6]),
                     WAdd(SmallSigma0(w[Len(w) - 14]), w[Len(w) - 15]))) :
      w \in {words} } : TRUE

Sched16(words) ==
  LET sched[n \in 0..16] == IF n = 0 THEN words ELSE Sched1(sched[n - 1])
  IN sched[16]

\* W[1..64] from the 16 words of a block
Schedule(blockWords) ==
  CHOOSE r \in
    {Sched16(c) : c \in {Sched16(b) : b \in {Sched16(a) : a \in {blockWords}}}} : TRUE

\* one compression round; st = << a, b, c, d, e, f, g, h, round number >>,
\* t = << T1, T2 >>
Round1(state, w) ==
  CHOOSE r \in
    { << WAdd(p[2][1], p[2][2]), p[1][1], p[1][2], p[1][3], WAdd(p[1][4], p[2][1]),
         p[1][5], p[1][6], p[1][7], p[1][9] + 1 >> :
      p \in { << st,
                 << WAdd(WAdd(WAdd(st[8], BigSigma1(st[5])),
                              WAdd(Ch(st[5], st[6], st[7]), SHA256_K[st[9]])), w[st[9]]),
                    WAdd(BigSigma0(st[1]), Maj(st[1], st[2], st[3])) >> >> :
              st \in {state} } } : TRUE

Round16(state, w) ==
  LET round[n \in 0..16] == IF n = 0 THEN state ELSE Round1(round[n - 1], w)
  IN round[16]

\* the 64 rounds
Rounds(state, w) ==
  CHOOSE r \in
    { Round16(d, w) :
      d \in {Round16(c, w) : c \in {Round16(b, w) : b \in {Round16(a, w) : a \in {state}}}} } : TRUE

Compress(h, blockWords) ==
  CHOOSE r \in
    { << WAdd(h[1], st[1]), WAdd(h[2], st[2]), WAdd(h[3], st[3]), WAdd(h[4], st[4]),
         WAdd(h[5], st[5]), WAdd(h[6], st[6]), WAdd(h[7], st[7]), WAdd(h[8], st[8]) >> :
      st \in {Rounds(h \o << 1 >>, w) : w \in {Schedule(blockWords)}} } : TRUE

\* the chaining value after the first count blocks of the padded message
Blocks(padded, count) ==
  LET chain[n \in 0..count] ==
        IF n = 0 THEN SHA256_H0
        ELSE CHOOSE r \in {Compress(h, BlockWords(padded, n - 1)) : h \in {chain[n - 1]}} : TRUE
  IN chain[count]

\* sha256.Sum256: the 32 digest bytes of data
Sum256(data) ==
  CHOOSE r \in
    { [i \in 1..32 |->
         IF (i - 1) % 2 = 0
         THEN h[((i - 1) \div 4) + 1][(((i - 1) % 4) \div 2) + 1] \div 256
         ELSE h[((i - 1) \div 4) + 1][(((i - 1) % 4) \div 2) + 1] % 256] :
      h \in {Blocks(padded, Len(padded) \div 64) : padded \in {Pad(data)}} } : TRUE

\* encoding/hex: "0123456789abcdef"
HexDigit(v) == IF v < 10 THEN 48 + v ELSE 87 + v

EncodeToString(bytes) ==
  [i \in 1..(2 * Len(bytes)) |->
     LET byte == bytes[((i - 1) \div 2) + 1]
     IN HexDigit(IF (i - 1) % 2 = 0 THEN byte \div 16 ELSE byte % 16)]

(***************************************************************************)
(* strings, fmt                                                             *)
(***************************************************************************)
\* strings.Repeat("0", count)
RepeatZero(count) == [i \in 1..count |-> 48]

\* strings.HasPrefix
HasPrefix(str, prefix) ==
  /\ Len(prefix) <= Len(str)
  /\ \A i \in 1..Len(prefix) : str[i] = prefix[i]

\* fmt.Sprintf("%d", v) for 0 <= v < 10^6
NumDigits(v) ==
  IF v < 10 THEN 1 ELSE IF v < 100 THEN 2 ELSE IF v < 1000 THEN 3
  ELSE IF v < 10000 THEN 4 ELSE IF v < 100000 THEN 5 ELSE 6

Itoa(v) == [i \in 1..NumDigits(v) |-> 48 + ((v \div (10 ^ (NumDigits(v) - i))) % 10)]

\* unicode.IsSpace on the bytes '\t', '\n', '\v', '\f', '\r', ' '
IsSpace(ch) == ch \in {9, 10, 11, 12, 13, 32}

\* strings.TrimSpace
TrimSpace(str) ==
  LET keep == {i \in 1..Len(str) : ~IsSpace(str[i])}
  IN IF keep = {} THEN << >>
     ELSE LET first == CHOOSE i \in keep : \A j \in keep : i <= j
              last == CHOOSE i \in keep : \A j \in keep : j <= i
          IN [i \in 1..(last - first + 1) |-> str[first + i - 1]]

(***************************************************************************)
(* pkg/protocol and the fixed messages.  pkg/protocol is not among the      *)
(* source files; its three markers are the ones of the wire protocol table. *)
(***************************************************************************)
\* "CHALLENGE:"
PrefixChallenge == << 67, 72, 65, 76, 76, 69, 78, 71, 69, 58 >>

\* "ERROR:"
PrefixError == << 69, 82, 82, 79, 82, 58 >>

\* "QUOTE:"
PrefixQuote == << 81, 85, 79, 84, 69, 58 >>

\* "Invalid PoW solution"
InvalidMsg == << 73, 110, 118, 97, 108, 105, 100, 32, 80, 111, 87, 32, 115, 111, 108, 117, 116, 105, 111, 110 >>

\* "Too many requests. Please try again later.\n"
MsgOnManyReq == << 84, 111, 111, 32, 109, 97, 110, 121, 32, 114, 101, 113, 117, 101, 115, 116, 115, 46, 32, 80, 108, 101, 97, 115, 101, 32, 116, 114, 121, 32, 97, 103, 97, 105, 110, 32, 108, 97, 116, 101, 114, 46, 10 >>

\* the same text behind the error marker of the handler's rejections
MsgOnErrInternalPrefixed == PrefixError \o << 73, 110, 116, 101, 114, 110, 97, 108, 32, 115, 101, 114, 118, 101, 114, 32, 101, 114, 114, 111, 114, 46, 32, 80, 108, 101, 97, 115, 101, 32, 116, 114, 121, 32, 97, 103, 97, 105, 110, 32, 108, 97, 116, 101, 114, 46, 10 >>

\* "Internal server error. Please try again later.\n"
MsgOnErrInternal == << 73, 110, 116, 101, 114, 110, 97, 108, 32, 115, 101, 114, 118, 101, 114, 32, 101, 114, 114, 111, 114, 46, 32, 80, 108, 101, 97, 115, 101, 32, 116, 114, 121, 32, 97, 103, 97, 105, 110, 32, 108, 97, 116, 101, 114, 46, 10 >>

\* the quotes cmd/server configures (the two shortest of the eight)
\* "Opportunities don't happen. You create them."
\* "Do what you can, with what you have, where you are."
Quotes ==
  { << 79, 112, 112, 111, 114, 116, 117, 110, 105, 116, 105, 101, 115, 32, 100, 111, 110, 39, 116, 32, 104, 97, 112, 112, 101, 110, 46, 32, 89, 111, 117, 32, 99, 114, 101, 97, 116, 101, 32, 116, 104, 101, 109, 46 >>,
    << 68, 111, 32, 119, 104, 97, 116, 32, 121, 111, 117, 32, 99, 97, 110, 44, 32, 119, 105, 116, 104, 32, 119, 104, 97, 116, 32, 121, 111, 117, 32, 104, 97, 118, 101, 44, 32, 119, 104, 101, 114, 101, 32, 121, 111, 117, 32, 97, 114, 101, 46 >> }

\* quotes.Stub: "Angry people are not always wise."
Stub == << 65, 110, 103, 114, 121, 32, 112, 101, 111, 112, 108, 101, 32, 97, 114, 101, 32, 110, 111, 116, 32, 97, 108, 119, 97, 121, 115, 32, 119, 105, 115, 101, 46 >>

\* RandomQuoteProvider.GetQuote: any of the configured quotes, Stub when none
GetQuote(configured) == IF configured = {} THEN {Stub} ELSE configured

(***************************************************************************)
(* internal/pow/sha256.go                                                   *)
(***************************************************************************)
\* the values p.rng.Int63() yields, in order, for the seed of the model's run
\* (the stream repeats after its last value)
RngStream == << 42, 90, 1001 >>

\* fmt.Sprintf("%x", v) for 0 <= v < 16^4
NumHexDigits(v) == IF v < 16 THEN 1 ELSE IF v < 256 THEN 2 ELSE IF v < 4096 THEN 3 ELSE 4

\* a formatting that writes no digit for 0
FormatHexNoZero(v) ==
  [i \in 1..(IF v = 0 THEN 0 ELSE NumHexDigits(v)) |->
     HexDigit((v \div (16 ^ (NumHexDigits(v) - i))) % 16)]

FormatHex(v) ==
  [i \in 1..NumHexDigits(v) |-> HexDigit((v \div (16 ^ (NumHexDigits(v) - i))) % 16)]

\* SHA256PoW.GenerateChallenge when the rng has been drawn from calls times
GenerateChallenge(calls) == FormatHex(RngStream[(calls % Len(RngStream)) + 1])

\* every token GenerateChallenge returns in the model: "2a", "5a", "3e9"
Tokens == {FormatHex(RngStream[i]) : i \in 1..Len(RngStream)}

\* PoW specification: challenges "", "103", "106", "18a"
PowChallenges == {<< >>, FormatHex(259), FormatHex(262), FormatHex(394)}

\* PoW specification: "", "solution", "39", "286" and "0" .. "MaxNonce"
PowSolutions ==
  {<< >>, << 115, 111, 108, 117, 116, 105, 111, 110 >>, Itoa(39), Itoa(286)} \cup {Itoa(v) : v \in 0..MaxNonce}

\* cmd/client solvePoW: the nonce its loop returns for the model's tokens at
\* difficulty 4 (the loop was run outside the model; the model uses the result
\* only as one of the texts a client may send, and validates it itself)
SolverNonce(chal) ==
  IF chal = FormatHex(42) THEN 2888 ELSE IF chal = FormatHex(90) THEN 26132 ELSE 30114

\* what a client may do after a challenge: send the solver's nonce framed as
\* " <nonce>\r\n" and wait for the answer; send "<nonce>\n" and hang up; send
\* an empty line and wait; send the nonce with no newline and nothing more
ClientBehaviours(chal) ==
  { [stream |-> << 32 >> \o Itoa(SolverNonce(chal)) \o << 13, 10 >>, stays |-> TRUE],
    [stream |-> Itoa(SolverNonce(chal)) \o << 10 >>, stays |-> FALSE],
    [stream |-> << 10 >>, stays |-> TRUE],
    [stream |-> Itoa(SolverNonce(chal)), stays |-> TRUE] }

\* every challenge ++ solution the model hashes
HashedMessages ==
  {cs[1] \o cs[2] : cs \in PowChallenges \X PowSolutions}
  \cup {cs[2] \o cs[1] : cs \in PowChallenges \X PowSolutions}
  \cup UNION {{g \o Itoa(SolverNonce(g)), g, Itoa(SolverNonce(g)) \o g} : g \in Tokens}

\* hex.EncodeToString(sha256.Sum256(..)) of those messages, evaluated once
DigestTable == [x \in HashedMessages |-> EncodeToString(Sum256(x))]

\* hashStr of ValidateChallenge
HashStr(data) ==
  IF data \in HashedMessages THEN DigestTable[data] ELSE EncodeToString(Sum256(data))

\* solvePoW of the engine's tests: the first nonce, counting up from 0, whose
\* digest has the prefix; the loop is followed up to MaxNonce, and MaxNonce + 1
\* stands for a loop that is still running then
solvePoW(chal, dif) ==
  LET loop[nonce \in 0..(MaxNonce + 1)] ==
        IF nonce > MaxNonce THEN nonce
        ELSE IF HasPrefix(HashStr(chal \o Itoa(nonce)), RepeatZero(dif)) THEN nonce
        ELSE loop[nonce + 1]
  IN loop[0]

\* a faulty variant of ValidateChallenge: wants exactly dif leading zeros
ValidateChallengeExact(dif, chal, sol) ==
  /\ HasPrefix(HashStr(chal \o sol), RepeatZero(dif))
  /\ ~HasPrefix(HashStr(chal \o sol), RepeatZero(dif + 1))

\* a faulty variant of ValidateChallenge: hashes solution ++ challenge
ValidateChallengeSwapped(dif, chal, sol) ==
  HasPrefix(HashStr(sol \o chal), RepeatZero(dif))

\* SHA256PoW.ValidateChallenge with p.difficulty = dif
ValidateChallenge(dif, chal, sol) ==
  HasPrefix(HashStr(chal \o sol), RepeatZero(dif))

(***************************************************************************)
(* More bounds of the model.                                                *)
(***************************************************************************)
MaxConns == 2        \* connections the listener accepts in a behaviour
MaxTime == 1         \* clock ticks of 100 ms (one rate-limiter refill each)
MaxDraws == 2        \* PoW specification: calls of each method on one engine

(***************************************************************************)
(* State.                                                                   *)
(***************************************************************************)
VARIABLES
  difficulty,   \* SHA256PoW.difficulty
  vcArgs,       \* PoW specification: << challenge, solution >> given to ValidateChallenge
  vcCalls,      \* PoW specification: number of ValidateChallenge calls made
  vcResult,     \* PoW specification: what ValidateChallenge returned
  rngCalls,     \* number of values drawn from SHA256PoW.rng
  generated,    \* PoW specification: the draws of p.rng and what GenerateChallenge made of them
  rngReads,     \* per unit inside p.rng.Int63(): the state of the source it has read
  config,       \* Server.config and the injected Handler
  semaphore,    \* len(Server.semaphore): admission permits outstanding
  wg,           \* the counter of Server.wg
  limiterMap,   \* Server.limiterMap: key -> limiter
  buckets,      \* the rate.Limiter objects: limiter -> [tokens, last]
  clock,        \* time.Now() in units of 100 ms
  accepted,     \* connections Accept has returned so far
  pc,           \* per connection: where its unit (or the accept loop) is with it
  remote,       \* per connection: conn.RemoteAddr()
  peer,         \* per connection: "up" until the client is found to have hung up
  limiter,      \* per unit: local variable limiter of handleClient
  deadline,     \* per unit: result of conn.SetDeadline, while the handler runs
  deferred,     \* per unit: deferred calls of handleClient still to run
  panicking,    \* per unit: a panic is unwinding
  locals,       \* per unit: local variables of HandleConnection
  wire,         \* per connection: the writes the server made to it, in order, until
                \* its unit is gone
  outcome,      \* per unit: how handling ended
  releases,     \* per unit: number of permit releases
  closes,       \* per connection: number of conn.Close() calls by the server
  handled,      \* per unit: number of Handler.HandleConnection invocations
  hcStep,       \* handler specification: where H.HandleConnection is
  hcConn,       \* handler specification: the Conn it was given
  hcLocals,     \* handler specification: its local variables
  hcWrites,     \* handler specification: the conn.Write calls it made, in order
  hcCalls,      \* handler specification: calls it made to its collaborators
  hcErr,        \* handler specification: the error it returned, << >> for nil
  listener,     \* Server.listener: "nil" before net.Listen, then "open", then "closed"
  listenerCloses, \* number of s.listener.Close() calls
  ctx,          \* Server.ctx: "active" or "done"
  shutdownOnce, \* Server.shutdownOnce: "fresh", "running" (its mutex is held), "done"
  shutdownLog,  \* the steps the body of Shutdown has run, in order
  callers,      \* where Start and the other callers of Shutdown are
  acceptLoop,   \* where the goroutine of acceptConnections is
  crashed       \* a panic outside any recover has ended the process

powVars == << difficulty, vcArgs, vcCalls, vcResult, rngCalls, generated, rngReads >>

sharedVars == << config, semaphore, wg, limiterMap, buckets, clock, accepted >>

connVars ==
  << pc, remote, peer, limiter, deadline, deferred, panicking, locals, wire, outcome,
     releases, closes, handled >>

handlerVars == << hcStep, hcConn, hcLocals, hcWrites, hcCalls, hcErr >>

\* the variables of the specifications of single components
lifecycleVars ==
  << listener, listenerCloses, ctx, shutdownOnce, shutdownLog, callers, acceptLoop, crashed >>

aloneVars == << handlerVars, lifecycleVars >>

vars == << powVars, sharedVars, connVars, aloneVars >>

Conns == 1..MaxConns

IPs == {"10.0.0.1", "10.0.0.2"}

\* the addresses the next connection can come from: the first connection of a
\* run comes from 10.0.0.1, the later ones from either address
NextIPs(count) == IF count = 0 THEN {"10.0.0.1"} ELSE IPs

NoAddr == [IP |-> "", Port |-> 0]

\* the unit is not inside p.rng.Int63()
NoRead == -1

\* a rate.Limiter object is named by the key it was made for and the number of
\* limiters made and stored for that key so far
NoLimiter == << "", 0 >>

NewLimiterId(made, key) == << key, 1 + Cardinality({id \in made : id[1] = key}) >>

NoBucket == [tokens |-> 0, last |-> 0]

NoLocals ==
  [challenge |-> << >>, line |-> << >>, solution |-> << >>, validated |-> FALSE, valid |-> FALSE]

(***************************************************************************)
(* Configurations: cmd/server's, and small ones in the shape of the tests'. *)
(***************************************************************************)
\* cmd/server main: RateLimitEvery100MS is not set, so it is 0
ShippedConfig == [MaxConnections |-> 100, RateLimitEvery100MS |-> 0, handler |-> "H"]

ShippedDifficulty == 4

Configs ==
  { ShippedConfig,
    [MaxConnections |-> 2, RateLimitEvery100MS |-> 1, handler |-> "H"],
    [MaxConnections |-> 1, RateLimitEvery100MS |-> 2, handler |-> "H"],
    [MaxConnections |-> 1, RateLimitEvery100MS |-> 0, handler |-> "H"],
    [MaxConnections |-> 2, RateLimitEvery100MS |-> 2, handler |-> "MockHandler"],
    [MaxConnections |-> 2, RateLimitEvery100MS |-> 2, handler |-> "MockHandlerWithError"],
    [MaxConnections |-> 2, RateLimitEvery100MS |-> 2, handler |-> "MockHandlerWithPanic"],
    [MaxConnections |-> 1, RateLimitEvery100MS |-> 2, handler |-> "MockHandlerWithPanic"] }

(***************************************************************************)
(* golang.org/x/time/rate as the server uses it: rate.Every(100 ms), burst  *)
(* config.RateLimitEvery100MS, one token per Allow.                         *)
(***************************************************************************)
Min(p, q) == IF p <= q THEN p ELSE q

\* rate.NewLimiter(rate.Every(100*time.Millisecond), burst): a full bucket
NewLimiter(burst) == [tokens |-> burst, last |-> 0]

\* Limiter.Allow at time t: refill since last, then take one token if there is one
Allow(bucket, burst, t) ==
  LET tokens == Min(burst, bucket.tokens + (t - bucket.last))
  IN IF 1 <= burst /\ tokens >= 1
       THEN [ok |-> TRUE, bucket |-> [tokens |-> tokens - 1, last |-> t]]
       ELSE [ok |-> FALSE, bucket |-> bucket]

(***************************************************************************)
(* sync.Map                                                                 *)
(***************************************************************************)
\* a faulty variant of LoadOrStore: Store, then return the stored value
LoadOrStoreAlwaysStores(map, key, value) ==
  [map |-> (key :> value) @@ map, actual |-> value, loaded |-> FALSE]

\* sync.Map.LoadOrStore, atomic
LoadOrStore(map, key, value) ==
  IF key \in DOMAIN map
    THEN [map |-> map, actual |-> map[key], loaded |-> TRUE]
    ELSE [map |-> (key :> value) @@ map, actual |-> value, loaded |-> FALSE]

\* conn.RemoteAddr().(*net.TCPAddr).IP.String()
LimiterKey(addr) == addr.IP

(***************************************************************************)
(* The admission semaphore: a buffered channel of capacity MaxConnections.  *)
(***************************************************************************)
\* a faulty variant of SemaphoreFull: off by one
SemaphoreFullOffByOne(sem, capacity) == sem > capacity

\* a faulty variant of SemaphoreFull: the send always proceeds
SemaphoreNeverFull(sem, capacity) == FALSE

\* the send "s.semaphore <- struct{}{}" of the select cannot proceed
SemaphoreFull(sem, capacity) == sem >= capacity

\* a faulty variant of ShedReply: the load-shedding branch answers like the rate limiter
ShedReplyTooMany == << MsgOnManyReq >>

\* what the default branch of the select writes to the connection: nothing
ShedReply == << >>

\* a faulty variant of DeferredCalls: no panic boundary
DeferredCallsNoRecover == << "release", "close", "wgDone" >>

\* a faulty variant of DeferredCalls: the socket is closed before the panic boundary runs
DeferredCallsCloseFirst == << "close", "recoverPanic", "release", "wgDone" >>

\* a faulty variant of DeferredCalls: the permit release is missing
DeferredCallsNoRelease == << "recoverPanic", "close", "wgDone" >>

\* a unit that does not close its connection
DeferredCallsNoClose == << "recoverPanic", "release", "wgDone" >>

\* the deferred calls of handleClient, in the order they run (last deferred first)
DeferredCalls == << "recoverPanic", "release", "close", "wgDone" >>

(***************************************************************************)
(* internal/app/handler.go                                                  *)
(***************************************************************************)
MaxReadSize == 1024

\* fmt.Fprintln(conn, message): the bytes written
Line(message) == message \o << 10 >>

\* a faulty variant of ReadString: the line is read whatever its length
ReadStringUnlimited(stream) ==
  LET nl == {i \in 1..Len(stream) : stream[i] = 10}
  IN IF nl = {} THEN [err |-> TRUE, line |-> << >>]
     ELSE LET first == CHOOSE i \in nl : \A j \in nl : i <= j
          IN [err |-> FALSE, line |-> [i \in 1..first |-> stream[i]]]

\* a faulty variant of ReadString: what was read is returned without the error
ReadStringDropsError(stream) ==
  LET nl == {i \in 1..Min(Len(stream), MaxReadSize) : stream[i] = 10}
      last == IF nl = {} THEN Min(Len(stream), MaxReadSize)
              ELSE CHOOSE i \in nl : \A j \in nl : i <= j
  IN [err |-> FALSE, line |-> [i \in 1..last |-> stream[i]]]

\* io.LimitedReader + bufio.Reader.ReadString('\n') on what the client sends
\* before it stops: the line up to the first newline within maxReadSize bytes,
\* else an error
ReadString(stream) ==
  LET nl == {i \in 1..Min(Len(stream), MaxReadSize) : stream[i] = 10}
  IN IF nl = {} THEN [err |-> TRUE, line |-> << >>]
     ELSE LET first == CHOOSE i \in nl : \A j \in nl : i <= j
          IN [err |-> FALSE, line |-> [i \in 1..first |-> stream[i]]]

\* a faulty variant of Reply: the test of the validation result is inverted
ReplyInverted(valid, quote) ==
  IF ~valid THEN PrefixQuote \o quote ELSE PrefixError \o InvalidMsg

\* a faulty variant of Reply: the quote goes out without its marker
ReplyNoMarker(valid, quote) ==
  IF valid THEN quote ELSE PrefixError \o InvalidMsg

\* the message HandleConnection sends after validation
Reply(valid, quote) ==
  IF valid THEN PrefixQuote \o quote ELSE PrefixError \o InvalidMsg

(***************************************************************************)
(* Initial states.                                                          *)
(***************************************************************************)
ConnsIdle ==
  /\ pc = [conn \in Conns |-> "idle"]
  /\ remote = [conn \in Conns |-> NoAddr]
  /\ peer = [conn \in Conns |-> "up"]
  /\ limiter = [conn \in Conns |-> NoLimiter]
  /\ deadline = [conn \in Conns |-> "unset"]
  /\ deferred = [conn \in Conns |-> << >>]
  /\ panicking = [conn \in Conns |-> FALSE]
  /\ locals = [conn \in Conns |-> NoLocals]
  /\ wire = [conn \in Conns |-> << >>]
  /\ outcome = [conn \in Conns |-> "none"]
  /\ releases = [conn \in Conns |-> 0]
  /\ closes = [conn \in Conns |-> 0]
  /\ handled = [conn \in Conns |-> 0]

NoConn == [writeOk |-> << >>, stream |-> << >>]

NoCalls == [GenerateChallenge |-> 0, Read |-> 0, ValidateChallenge |-> 0, GetQuote |-> 0]

NoHandlerLocals == [challenge |-> << >>, solution |-> << >>, valid |-> FALSE, quote |-> << >>]

\* H.HandleConnection is not under study
HandlerIdle ==
  /\ hcStep = "idle"
  /\ hcConn = NoConn
  /\ hcLocals = NoHandlerLocals
  /\ hcWrites = << >>
  /\ hcCalls = NoCalls
  /\ hcErr = << >>

\* the goroutines that call Shutdown: Start, once the context is done, and
\* two others that call it directly
Callers == {"Start", "caller1", "caller2"}

\* Start is waiting for the context, the accept loop is in Accept, nobody
\* calls Shutdown
LifecycleIdle ==
  /\ listener = "open"
  /\ listenerCloses = 0
  /\ ctx = "active"
  /\ shutdownOnce = "fresh"
  /\ shutdownLog = << >>
  /\ callers = [p \in Callers |-> IF p = "Start" THEN "wait" ELSE "idle"]
  /\ acceptLoop = "accept"
  /\ crashed = FALSE

\* NewServer(cfg, logger, NewHandler(quotes, NewSHA256PoW(4))) and a bound listener
Init ==
  /\ difficulty = ShippedDifficulty
  /\ vcArgs = << << >>, << >> >>
  /\ vcCalls = 0
  /\ vcResult = FALSE
  /\ rngCalls = 0
  /\ generated = << >>
  /\ rngReads = [conn \in Conns |-> NoRead]
  /\ config \in Configs
  /\ semaphore = 0
  /\ wg = 0
  /\ limiterMap = [key \in {} |-> NoLimiter]
  /\ buckets = [id \in {} |-> NoBucket]
  /\ clock = 0
  /\ accepted = 0
  /\ ConnsIdle
  /\ HandlerIdle
  /\ LifecycleIdle

(***************************************************************************)
(* The accept loop (Server.acceptConnections), one iteration that got a     *)
(* connection: admit it to a unit, or shed it.                              *)
(***************************************************************************)
\* the select of the accept loop on a connection Accept has returned: take a
\* permit and start its unit, or close it
Select(conn) ==
  IF ~SemaphoreFull(semaphore, config.MaxConnections)
    THEN /\ semaphore' = semaphore + 1
         /\ wg' = wg + 1
         /\ pc' = [pc EXCEPT ![conn] = "start"]
         /\ deferred' = [deferred EXCEPT ![conn] = DeferredCalls]
         /\ UNCHANGED << wire, closes >>
    ELSE /\ pc' = [pc EXCEPT ![conn] = "shed"]
         /\ wire' = [wire EXCEPT ![conn] = ShedReply]
         /\ closes' = [closes EXCEPT ![conn] = @ + 1]
         /\ UNCHANGED << semaphore, wg, deferred >>

Accept(conn, addrIP) ==
  /\ conn = accepted + 1
  /\ conn <= MaxConns
  /\ accepted' = conn
  /\ remote' = [remote EXCEPT ![conn] = [IP |-> addrIP, Port |-> conn]]
  /\ Select(conn)
  /\ UNCHANGED aloneVars
  /\ UNCHANGED << powVars, config, limiterMap, buckets, clock, peer, limiter, deadline,
                  panicking, locals, outcome, releases, handled >>

(***************************************************************************)
(* A connection unit (Server.handleClient).                                 *)
(***************************************************************************)
\* conn.Write(data) to a client in state health: the new contents of
\* wire[conn]; nothing arrives once the client has hung up
Written(conn, health, data) == IF health = "up" THEN Append(wire[conn], data) ELSE wire[conn]

\* the states the client of conn can be found in at the next write: a client
\* that has hung up stays so
Health(conn) == IF peer[conn] = "up" THEN {"up", "down"} ELSE {"down"}

\* limiter := s.getLimiterForIP(ip)
GetLimiter(conn) ==
  /\ pc[conn] = "start"
  /\ LET fresh == NewLimiterId(DOMAIN buckets, LimiterKey(remote[conn]))
         got == LoadOrStore(limiterMap, LimiterKey(remote[conn]), fresh)
     IN /\ limiterMap' = got.map
        /\ limiter' = [limiter EXCEPT ![conn] = got.actual]
        /\ buckets' = IF got.loaded
                        THEN buckets
                        ELSE (fresh :> NewLimiter(config.RateLimitEvery100MS)) @@ buckets
  /\ pc' = [pc EXCEPT ![conn] = "allow"]
  /\ UNCHANGED aloneVars
  /\ UNCHANGED << powVars, config, semaphore, wg, clock, accepted, remote, peer, deadline,
                  deferred, panicking, locals, wire, outcome, releases, closes, handled >>

\* if !limiter.Allow() { conn.Write(MsgOnManyReq); return }
LimiterAllow(conn, health) ==
  /\ pc[conn] = "allow"
  /\ LET got == Allow(buckets[limiter[conn]], config.RateLimitEvery100MS, clock)
     IN /\ buckets' = [buckets EXCEPT ![limiter[conn]] = got.bucket]
        /\ IF got.ok
             THEN /\ pc' = [pc EXCEPT ![conn] = "handle"]
                  /\ health = "up"
                  /\ UNCHANGED << wire, outcome, peer >>
             ELSE /\ pc' = [pc EXCEPT ![conn] = "defer"]
                  /\ peer' = [peer EXCEPT ![conn] = health]
                  /\ wire' = [wire EXCEPT ![conn] = Written(conn, health, MsgOnManyReq)]
                  /\ outcome' = [outcome EXCEPT ![conn] = "rate limited"]
  /\ UNCHANGED aloneVars
  /\ UNCHANGED << powVars, config, semaphore, wg, limiterMap, clock, accepted, remote,
                  limiter, deadline, deferred, panicking, locals, releases, closes, handled >>

\* conn.SetDeadline, whose error is only logged, then s.handler.HandleConnection(conn)
\* up to where the handler first waits: H has sent the challenge, MockHandler sleeps
InvokeHandler(conn, deadlineOk, health) ==
  /\ pc[conn] = "handle"
  /\ handled' = [handled EXCEPT ![conn] = @ + 1]
  /\ \/ /\ config.handler = "H"
        /\ rngCalls' = rngCalls + 1
        /\ locals' = [locals EXCEPT ![conn].challenge = GenerateChallenge(rngCalls)]
        /\ peer' = [peer EXCEPT ![conn] = health]
        /\ wire' = [wire EXCEPT ![conn] =
                      Written(conn, health, Line(PrefixChallenge \o GenerateChallenge(rngCalls)))]
        /\ IF health = "up"
             THEN /\ pc' = [pc EXCEPT ![conn] = "read"]
                  /\ UNCHANGED outcome
             ELSE /\ pc' = [pc EXCEPT ![conn] = "defer"]
                  /\ outcome' = [outcome EXCEPT ![conn] = "send failed"]
        /\ UNCHANGED panicking
     \/ /\ config.handler = "MockHandler"
        /\ health = "up"
        /\ pc' = [pc EXCEPT ![conn] = "sleep"]
        /\ UNCHANGED << rngCalls, locals, wire, outcome, panicking, peer >>
     \/ /\ config.handler = "MockHandlerWithError"
        /\ pc' = [pc EXCEPT ![conn] = "defer"]
        /\ health = "up"
        /\ outcome' = [outcome EXCEPT ![conn] = "handler error"]
        /\ UNCHANGED << rngCalls, locals, wire, panicking, peer >>
     \/ /\ config.handler = "MockHandlerWithPanic"
        /\ pc' = [pc EXCEPT ![conn] = "defer"]
        /\ panicking' = [panicking EXCEPT ![conn] = TRUE]
        /\ health = "up"
        /\ outcome' = [outcome EXCEPT ![conn] = "panic"]
        /\ UNCHANGED << rngCalls, locals, wire, peer >>
  /\ deadline' = [deadline EXCEPT ![conn] =
                    IF pc'[conn] = "defer" THEN "unset" ELSE IF deadlineOk THEN "set" ELSE "failed"]
  /\ UNCHANGED aloneVars
  /\ UNCHANGED << difficulty, vcArgs, vcCalls, vcResult, generated, rngReads, sharedVars,
                  remote, limiter, deferred, releases, closes >>

\* a deferred call that synchronises with other goroutines
SharedCall(call) == call \in {"release", "wgDone"}

\* a step of unwinding runs the deferred calls up to and including the first
\* that synchronises with other goroutines
BatchLen(stack) ==
  IF \E i \in 1..Len(stack) : SharedCall(stack[i])
    THEN CHOOSE i \in 1..Len(stack) :
           SharedCall(stack[i]) /\ \A j \in 1..(i - 1) : ~SharedCall(stack[j])
    ELSE Len(stack)

\* how many of the first size calls of stack are call
CountCalls(stack, size, call) == Cardinality({i \in 1..size : stack[i] = call})

\* the next deferred calls of unit conn run: the permit release "<-s.semaphore",
\* conn.Close(), s.wg.Done(); after the last call the unit is gone
RunDeferred(conn) ==
  LET stack == deferred[conn]
      size == BatchLen(stack)
  IN /\ deferred' = [deferred EXCEPT ![conn] = SubSeq(stack, size + 1, Len(stack))]
     /\ pc' = [pc EXCEPT ![conn] = IF size = Len(stack) THEN "done" ELSE "defer"]
     /\ semaphore' = semaphore - CountCalls(stack, size, "release")
     /\ releases' = [releases EXCEPT ![conn] = @ + CountCalls(stack, size, "release")]
     /\ closes' = [closes EXCEPT ![conn] = @ + CountCalls(stack, size, "close")]
     /\ wg' = wg - CountCalls(stack, size, "wgDone")

\* MockHandler: time.Sleep(100 ms) is over, return nil; handleClient returns and
\* unwinds as far as its permit release
MockHandlerReturn(conn) ==
  /\ pc[conn] = "sleep"
  /\ RunDeferred(conn)
  /\ outcome' = [outcome EXCEPT ![conn] = "ok"]
  /\ deadline' = [deadline EXCEPT ![conn] = "unset"]
  /\ UNCHANGED aloneVars
  /\ UNCHANGED << powVars, config, limiterMap, buckets, clock, accepted, remote, peer, limiter,
                  panicking, locals, wire, handled >>

\* H.HandleConnection from readClientResponse to its return, with a client
\* that sends client.stream and, unless client.stays, has hung up by the time
\* the answer is written; all of it is local to the connection, and the step
\* runs on through handleClient's return as far as its permit release
ReadAndAnswer(conn, client, quote) ==
  /\ pc[conn] = "read"
  /\ RunDeferred(conn)
  /\ LET got == ReadString(client.stream)
         solution == TrimSpace(got.line)
         valid == ValidateChallenge(difficulty, locals[conn].challenge, solution)
     IN IF got.err
          THEN /\ outcome' = [outcome EXCEPT ![conn] = "read failed"]
               /\ UNCHANGED << locals, wire, peer >>
          ELSE /\ locals' = [locals EXCEPT ![conn] =
                               [challenge |-> @.challenge, line |-> got.line,
                                solution |-> solution, validated |-> TRUE, valid |-> valid]]
               /\ peer' = [peer EXCEPT ![conn] = IF client.stays THEN "up" ELSE "down"]
               /\ wire' = [wire EXCEPT ![conn] =
                             IF client.stays THEN Append(@, Line(Reply(valid, quote))) ELSE @]
               /\ outcome' = [outcome EXCEPT ![conn] =
                                IF client.stays THEN "ok" ELSE "send failed"]
  /\ deadline' = [deadline EXCEPT ![conn] = "unset"]
  /\ UNCHANGED aloneVars
  /\ UNCHANGED << powVars, config, limiterMap, buckets, clock, accepted, remote, limiter,
                  panicking, handled >>

\* a recoverPanic without the test of what recover() returned
RecoverReportsAlways(inPanic) == TRUE

\* if r := recover(); r != nil: whether recoverPanic has something to report
RecoverReports(inPanic) == inPanic

\* the unit unwinds: recoverPanic (a panic in flight is recovered, and
\* MsgOnErrInternal written if the connection is still open), then the calls
\* of RunDeferred
Unwind(conn, health) ==
  /\ pc[conn] = "defer"
  /\ RunDeferred(conn)
  /\ LET stack == deferred[conn]
         size == BatchLen(stack)
         recoverAt == {i \in 1..size : stack[i] = "recoverPanic"}
         closedBefore(i) == closes[conn] > 0 \/ \E j \in 1..(i - 1) : stack[j] = "close"
         recovers == RecoverReports(panicking[conn]) /\ recoverAt # {}
         writes == recovers /\ \E i \in recoverAt : ~closedBefore(i)
     IN /\ panicking' = [panicking EXCEPT ![conn] = IF recovers THEN FALSE ELSE @]
        /\ IF writes
             THEN /\ peer' = [peer EXCEPT ![conn] = health]
                  /\ wire' = [wire EXCEPT ![conn] =
                                IF pc'[conn] = "done" THEN << >>
                                ELSE Written(conn, health, MsgOnErrInternal)]
             ELSE /\ health = peer[conn]
                  /\ wire' = [wire EXCEPT ![conn] = IF pc'[conn] = "done" THEN << >> ELSE @]
                  /\ UNCHANGED peer
  /\ locals' = [locals EXCEPT ![conn] = IF pc'[conn] = "done" THEN NoLocals ELSE @]
  /\ UNCHANGED aloneVars
  /\ UNCHANGED << powVars, config, limiterMap, buckets, clock, accepted, remote, limiter,
                  deadline, outcome, handled >>

\* 100 ms pass
Tick ==
  /\ clock < MaxTime
  /\ clock' = clock + 1
  /\ UNCHANGED aloneVars
  /\ UNCHANGED << powVars, config, semaphore, wg, limiterMap, buckets, accepted, connVars >>

Next ==
  \/ \E conn \in Conns, addrIP \in NextIPs(accepted) : Accept(conn, addrIP)
  \/ \E conn \in Conns : GetLimiter(conn)
  \/ \E conn \in Conns : \E health \in Health(conn) : LimiterAllow(conn, health)
  \/ \E conn \in Conns, deadlineOk \in BOOLEAN :
       \E health \in Health(conn) : InvokeHandler(conn, deadlineOk, health)
  \/ \E conn \in Conns : MockHandlerReturn(conn)
  \/ \E conn \in Conns :
       \E client \in ClientBehaviours(locals[conn].challenge), quote \in GetQuote(Quotes) :
         ReadAndAnswer(conn, client, quote)
  \/ \E conn \in Conns : \E health \in Health(conn) : Unwind(conn, health)
  \/ Tick

Spec == Init /\ [][Next]_vars

(***************************************************************************)
(* The PoW engine on its own: an engine of any difficulty up to             *)
(* MaxDifficulty validates one challenge/solution pair.                     *)
(***************************************************************************)
InitPoW ==
  /\ difficulty \in 0..MaxDifficulty
  /\ vcArgs \in PowChallenges \X PowSolutions
  /\ vcCalls = 0
  /\ vcResult = FALSE
  /\ rngCalls = 0
  /\ generated = << >>
  /\ rngReads = [conn \in Conns |-> NoRead]
  /\ config = ShippedConfig
  /\ semaphore = 0
  /\ wg = 0
  /\ limiterMap = [key \in {} |-> NoLimiter]
  /\ buckets = [id \in {} |-> NoBucket]
  /\ clock = 0
  /\ accepted = 0
  /\ ConnsIdle
  /\ HandlerIdle
  /\ LifecycleIdle

\* an engine whose check counts the draws of its source into the difficulty
ValidateReadsSource ==
  /\ vcCalls < MaxDraws
  /\ vcCalls' = vcCalls + 1
  /\ vcResult' = ValidateChallenge(difficulty + rngCalls, vcArgs[1], vcArgs[2])
  /\ UNCHANGED << difficulty, vcArgs, rngCalls, generated, rngReads >>
  /\ UNCHANGED << sharedVars, connVars, aloneVars >>

\* valid := p.ValidateChallenge(challenge, solution), any number of times
Validate ==
  /\ vcCalls < MaxDraws
  /\ vcCalls' = vcCalls + 1
  /\ vcResult' = ValidateChallenge(difficulty, vcArgs[1], vcArgs[2])
  /\ UNCHANGED << difficulty, vcArgs, rngCalls, generated, rngReads >>
  /\ UNCHANGED << sharedVars, connVars, aloneVars >>

\* challenge := p.GenerateChallenge() on an engine used by one goroutine:
\* p.rng.Int63() yields v, which is any non-negative value, and the engine
\* formats it
Generate(v) ==
  /\ Len(generated) < MaxDraws
  /\ generated' = Append(generated, [drawn |-> v, challenge |-> FormatHex(v)])
  /\ rngCalls' = rngCalls + 1
  /\ UNCHANGED << difficulty, vcArgs, vcCalls, vcResult, rngReads >>
  /\ UNCHANGED << sharedVars, connVars, aloneVars >>

NextPoW ==
  \/ Validate
  \/ \E v \in {0, 42, 1001} : Generate(v)

SpecPoW == InitPoW /\ [][NextPoW]_vars


(***************************************************************************)
(* The protocol handler on its own: H.HandleConnection (handler.go) with    *)
(* the PoW engine and quote provider of cmd/server, on a Conn whose Write   *)
(* calls succeed or fail as hcConn.writeOk says and whose Read calls        *)
(* deliver hcConn.stream and then fail (error, deadline or end of stream).  *)
(***************************************************************************)
\* a stream whose first newline comes just after maxReadSize bytes
OverBudget == [i \in 1..(MaxReadSize + 1) |-> IF i <= MaxReadSize THEN 48 ELSE 10]

\* a line of maxReadSize bytes, newline included, with a space before it
AtBudget ==
  [i \in 1..MaxReadSize |-> IF i = MaxReadSize THEN 10 ELSE IF i = MaxReadSize - 1 THEN 32 ELSE 48]

\* what the peer of the Conn sends: the streams of ClientBehaviours, nothing
\* at all, a nonce that does not solve the challenge, a line over the budget,
\* a line that just fits it
HandlerStreams(chal) ==
  {client.stream : client \in ClientBehaviours(chal)}
  \cup {<< >>, Itoa(SolverNonce(chal) + 1) \o << 10 >>, OverBudget, AtBudget}

\* a faulty variant of SendMessage: the error of the write is dropped
SendMessageDropsError(writeOk, message) == [data |-> Line(message), err |-> << >>]

\* sendMessage: the bytes given to conn.Write and the error returned
SendMessage(writeOk, message) ==
  [data |-> Line(message),
   err |-> IF writeOk THEN << >> ELSE << "failed to send message", "write error" >>]

\* whether the next conn.Write succeeds: Write calls after the scripted ones do
WriteOk(scripted, made) == IF made < Len(scripted) THEN scripted[made + 1] ELSE TRUE

\* faulty variants of the control flow: a failed challenge write is retried; a
\* failed read is followed by the validation all the same
NextStepRetries(step, failed) ==
  CASE step = "challenge" -> IF failed THEN "challenge" ELSE "read"
    [] step = "read" -> IF failed THEN "returned" ELSE "validate"
    [] step = "validate" -> "reply"
    [] step = "reply" -> "returned"

NextStepIgnoresReadError(step, failed) ==
  CASE step = "challenge" -> IF failed THEN "returned" ELSE "read"
    [] step = "read" -> "validate"
    [] step = "validate" -> "reply"
    [] step = "reply" -> "returned"

\* where HandleConnection goes after a step: on, or out by the early return
\* of a failed write of the challenge or a failed read
NextStep(step, failed) ==
  CASE step = "challenge" -> IF failed THEN "returned" ELSE "read"
    [] step = "read" -> IF failed THEN "returned" ELSE "validate"
    [] step = "validate" -> "reply"
    [] step = "reply" -> "returned"

InitHandler ==
  /\ difficulty = ShippedDifficulty
  /\ vcArgs = << << >>, << >> >>
  /\ vcCalls = 0
  /\ vcResult = FALSE
  /\ rngCalls \in 0..(Len(RngStream) - 1)
  /\ generated = << >>
  /\ rngReads = [conn \in Conns |-> NoRead]
  /\ config = ShippedConfig
  /\ semaphore = 0
  /\ wg = 0
  /\ limiterMap = [key \in {} |-> NoLimiter]
  /\ buckets = [id \in {} |-> NoBucket]
  /\ clock = 0
  /\ accepted = 0
  /\ ConnsIdle
  /\ hcStep = "challenge"
  /\ hcConn \in [writeOk : BOOLEAN \X BOOLEAN, stream : HandlerStreams(GenerateChallenge(rngCalls))]
  /\ hcLocals = NoHandlerLocals
  /\ hcWrites = << >>
  /\ hcCalls = NoCalls
  /\ hcErr = << >>
  /\ LifecycleIdle

\* challenge := h.powChallenge.GenerateChallenge(); sendMessage(conn, PrefixChallenge+challenge)
HcSendChallenge ==
  /\ hcStep = "challenge"
  /\ rngCalls' = rngCalls + 1
  /\ hcCalls' = [hcCalls EXCEPT !.GenerateChallenge = @ + 1]
  /\ hcLocals' = [hcLocals EXCEPT !.challenge = GenerateChallenge(rngCalls)]
  /\ LET sent == SendMessage(WriteOk(hcConn.writeOk, Len(hcWrites)),
                             PrefixChallenge \o GenerateChallenge(rngCalls))
     IN /\ hcWrites' = Append(hcWrites, [data |-> sent.data,
                                         ok |-> WriteOk(hcConn.writeOk, Len(hcWrites))])
        /\ hcErr' = IF sent.err # << >> THEN << "failed to send challenge" >> \o sent.err
                    ELSE hcErr
        /\ hcStep' = NextStep(hcStep, sent.err # << >>)
  /\ UNCHANGED << difficulty, vcArgs, vcCalls, vcResult, generated, rngReads, sharedVars,
                  connVars, hcConn, lifecycleVars >>

\* solution, err := readClientResponse(conn)
HcReadClientResponse ==
  /\ hcStep = "read"
  /\ hcCalls' = [hcCalls EXCEPT !.Read = @ + 1]
  /\ LET got == ReadString(hcConn.stream)
     IN /\ hcStep' = NextStep(hcStep, got.err)
        /\ IF got.err
             THEN /\ hcErr' = << "failed to read client response", "read error" >>
                  /\ UNCHANGED hcLocals
             ELSE /\ hcLocals' = [hcLocals EXCEPT !.solution = TrimSpace(got.line)]
                  /\ UNCHANGED hcErr
  /\ UNCHANGED << powVars, sharedVars, connVars, hcConn, hcWrites, lifecycleVars >>

\* h.powChallenge.ValidateChallenge(challenge, solution)
HcValidate ==
  /\ hcStep = "validate"
  /\ hcCalls' = [hcCalls EXCEPT !.ValidateChallenge = @ + 1]
  /\ hcLocals' = [hcLocals EXCEPT
                    !.valid = ValidateChallenge(difficulty, hcLocals.challenge, hcLocals.solution)]
  /\ hcStep' = NextStep(hcStep, FALSE)
  /\ UNCHANGED << powVars, sharedVars, connVars, hcConn, hcWrites, hcErr, lifecycleVars >>

\* the rest of HandleConnection: the error line, or GetQuote and the quote line
HcReply(quote) ==
  /\ hcStep = "reply"
  /\ hcCalls' = [hcCalls EXCEPT !.GetQuote = IF hcLocals.valid THEN @ + 1 ELSE @]
  /\ hcLocals' = [hcLocals EXCEPT !.quote = IF hcLocals.valid THEN quote ELSE @]
  /\ LET sent == SendMessage(WriteOk(hcConn.writeOk, Len(hcWrites)),
                             Reply(hcLocals.valid, quote))
     IN /\ hcWrites' = Append(hcWrites, [data |-> sent.data,
                                         ok |-> WriteOk(hcConn.writeOk, Len(hcWrites))])
        /\ hcErr' = IF sent.err = << >> THEN << >>
                    ELSE IF hcLocals.valid THEN << "failed to send quote" >> \o sent.err
                    ELSE << "failed to send validate" >> \o sent.err
  /\ hcStep' = NextStep(hcStep, FALSE)
  /\ UNCHANGED << powVars, sharedVars, connVars, hcConn, lifecycleVars >>

NextHandler ==
  \/ HcSendChallenge
  \/ HcReadClientResponse
  \/ HcValidate
  \/ \E quote \in (IF hcLocals.valid THEN GetQuote(Quotes) ELSE {<< >>}) : HcReply(quote)

SpecHandler == InitHandler /\ [][NextHandler]_vars

(***************************************************************************)
(* The life of the server: Start, the accept loop, the units it starts and  *)
(* Shutdown, called by Start when the context is done and by others at any  *)
(* time after NewServer.                                                    *)
(***************************************************************************)
\* the state NewServer returns: no listener yet, Start not yet past its first
\* line; the handler is the MockHandler of the server tests, and with the
\* smaller configuration one unit holds every permit
InitLifecycle ==
  /\ difficulty = ShippedDifficulty
  /\ vcArgs = << << >>, << >> >>
  /\ vcCalls = 0
  /\ vcResult = FALSE
  /\ rngCalls = 0
  /\ generated = << >>
  /\ rngReads = [conn \in Conns |-> NoRead]
  /\ config \in { [MaxConnections |-> 2, RateLimitEvery100MS |-> 2, handler |-> "MockHandler"],
                  [MaxConnections |-> 1, RateLimitEvery100MS |-> 2, handler |-> "MockHandler"] }
  /\ semaphore = 0
  /\ wg = 0
  /\ limiterMap = [key \in {} |-> NoLimiter]
  /\ buckets = [id \in {} |-> NoBucket]
  /\ clock = 0
  /\ accepted = 0
  /\ ConnsIdle
  /\ HandlerIdle
  /\ listener = "nil"
  /\ listenerCloses = 0
  /\ ctx = "active"
  /\ shutdownOnce = "fresh"
  /\ shutdownLog = << >>
  /\ callers = [p \in Callers |-> IF p = "Start" THEN "init" ELSE "idle"]
  /\ acceptLoop = "off"
  /\ crashed = FALSE

\* s.listener, err = net.Listen("tcp", s.config.Port), which succeeds
StartListen ==
  /\ ~crashed
  /\ callers["Start"] = "init"
  /\ listener' = "open"
  /\ callers' = [callers EXCEPT !["Start"] = "spawn"]
  /\ UNCHANGED << listenerCloses, ctx, shutdownOnce, shutdownLog, acceptLoop, crashed >>
  /\ UNCHANGED << powVars, sharedVars, connVars, handlerVars >>

\* go s.acceptConnections()
StartSpawn ==
  /\ ~crashed
  /\ callers["Start"] = "spawn"
  /\ acceptLoop' = "accept"
  /\ callers' = [callers EXCEPT !["Start"] = "wait"]
  /\ UNCHANGED << listener, listenerCloses, ctx, shutdownOnce, shutdownLog, crashed >>
  /\ UNCHANGED << powVars, sharedVars, connVars, handlerVars >>

\* the process receives os.Interrupt, SIGINT or SIGTERM: signal.NotifyContext
\* ends the context
Signal ==
  /\ ~crashed
  /\ ctx = "active"
  /\ ctx' = "done"
  /\ UNCHANGED << listener, listenerCloses, shutdownOnce, shutdownLog, callers, acceptLoop,
                  crashed >>
  /\ UNCHANGED << powVars, sharedVars, connVars, handlerVars >>

\* <-s.ctx.Done() in Start returns; Start calls s.Shutdown()
StartWake ==
  /\ ~crashed
  /\ callers["Start"] = "wait"
  /\ ctx = "done"
  /\ callers' = [callers EXCEPT !["Start"] = "once"]
  /\ UNCHANGED << listener, listenerCloses, ctx, shutdownOnce, shutdownLog, acceptLoop, crashed >>
  /\ UNCHANGED << powVars, sharedVars, connVars, handlerVars >>

\* another goroutine calls s.Shutdown()
Call(p) ==
  /\ ~crashed
  /\ p # "Start"
  /\ callers[p] = "idle"
  /\ callers' = [callers EXCEPT ![p] = "once"]
  /\ UNCHANGED << listener, listenerCloses, ctx, shutdownOnce, shutdownLog, acceptLoop, crashed >>
  /\ UNCHANGED << powVars, sharedVars, connVars, handlerVars >>

\* a Once whose later callers return while the body is still running
OnceEnterNoWait(once) ==
  CASE once = "fresh" -> "run"
    [] once = "running" -> "skip"
    [] once = "done" -> "skip"

\* a Once that lets every caller run the body
OnceEnterEveryCaller(once) == "run"

\* sync.Once.Do as a caller finds it: the first runs the body, one that comes
\* while the body runs waits for its mutex, one that comes later returns
OnceEnter(once) ==
  CASE once = "fresh" -> "run"
    [] once = "running" -> "wait"
    [] once = "done" -> "skip"

\* s.shutdownOnce.Do(func() {...}) is entered by caller p, or finds the body done
OnceDo(p) ==
  /\ ~crashed
  /\ callers[p] = "once"
  /\ OnceEnter(shutdownOnce) # "wait"
  /\ IF OnceEnter(shutdownOnce) = "run"
       THEN /\ shutdownOnce' = "running"
            /\ callers' = [callers EXCEPT ![p] = "close"]
       ELSE /\ callers' = [callers EXCEPT ![p] = "returned"]
            /\ UNCHANGED shutdownOnce
  /\ UNCHANGED << listener, listenerCloses, ctx, shutdownLog, acceptLoop, crashed >>
  /\ UNCHANGED << powVars, sharedVars, connVars, handlerVars >>

\* a body that cancels the context before it waits
BodyStepCancelsFirst(at) ==
  CASE at = "close" -> "cancel"
    [] at = "cancel" -> "drain"
    [] at = "drain" -> "unlock"

\* a body that returns without s.cancel()
BodyStepNoCancel(at) ==
  CASE at = "close" -> "drain"
    [] at = "drain" -> "unlock"
    [] at = "cancel" -> "unlock"

\* the statements of the body in their order: s.listener.Close(), the select
\* on done and time.After, s.cancel(), and the return
BodyStep(at) ==
  CASE at = "close" -> "drain"
    [] at = "drain" -> "cancel"
    [] at = "cancel" -> "unlock"

\* s.listener.Close(), whose error is only logged; on the nil listener of a
\* server that has not listened yet the call panics, and nothing recovers it
BodyClose(p) ==
  /\ ~crashed
  /\ callers[p] = "close"
  /\ IF listener = "nil"
       THEN /\ crashed' = TRUE
            /\ callers' = [callers EXCEPT ![p] = "panicked"]
            /\ UNCHANGED << listener, listenerCloses, shutdownLog >>
       ELSE /\ listener' = "closed"
            /\ listenerCloses' = listenerCloses + 1
            /\ shutdownLog' = Append(shutdownLog, "close")
            /\ callers' = [callers EXCEPT ![p] = BodyStep(callers[p])]
            /\ UNCHANGED crashed
  /\ UNCHANGED << ctx, shutdownOnce, acceptLoop >>
  /\ UNCHANGED << powVars, sharedVars, connVars, handlerVars >>

\* a wait that returns whatever the counter is
WaitReturnsAtOnce(counter) == TRUE

\* s.wg.Wait() returns when the counter is zero
WaitReturns(counter) == counter = 0

\* the select of the body ends: as "drained" when done is closed, which it is
\* once s.wg.Wait() has returned, or as "timeout" when
\* time.After(s.config.ShutdownTimeout) fires
BodyDrain(p, how) ==
  /\ ~crashed
  /\ callers[p] = "drain"
  /\ how = "drained" => WaitReturns(wg)
  /\ shutdownLog' = Append(shutdownLog, how)
  /\ callers' = [callers EXCEPT ![p] = BodyStep(callers[p])]
  /\ UNCHANGED << listener, listenerCloses, ctx, shutdownOnce, acceptLoop, crashed >>
  /\ UNCHANGED << powVars, sharedVars, connVars, handlerVars >>

\* s.cancel()
BodyCancel(p) ==
  /\ ~crashed
  /\ callers[p] = "cancel"
  /\ ctx' = "done"
  /\ shutdownLog' = Append(shutdownLog, "cancel")
  /\ callers' = [callers EXCEPT ![p] = BodyStep(callers[p])]
  /\ UNCHANGED << listener, listenerCloses, shutdownOnce, acceptLoop, crashed >>
  /\ UNCHANGED << powVars, sharedVars, connVars, handlerVars >>

\* the body has returned: Do marks the Once done, unlocks it and returns
OnceDone(p) ==
  /\ ~crashed
  /\ callers[p] = "unlock"
  /\ shutdownOnce' = "done"
  /\ callers' = [callers EXCEPT ![p] = "returned"]
  /\ UNCHANGED << listener, listenerCloses, ctx, shutdownLog, acceptLoop, crashed >>
  /\ UNCHANGED << powVars, sharedVars, connVars, handlerVars >>

\* s.listener.Accept() returns a connection
AcceptReturns(conn, addrIP) ==
  /\ ~crashed
  /\ acceptLoop = "accept"
  /\ listener = "open"
  /\ conn = accepted + 1
  /\ conn <= MaxConns
  /\ accepted' = conn
  /\ remote' = [remote EXCEPT ![conn] = [IP |-> addrIP, Port |-> conn]]
  /\ pc' = [pc EXCEPT ![conn] = "accepted"]
  /\ acceptLoop' = "select"
  /\ UNCHANGED << listener, listenerCloses, ctx, shutdownOnce, shutdownLog, callers, crashed >>
  /\ UNCHANGED << powVars, config, semaphore, wg, limiterMap, buckets, clock, handlerVars,
                  peer, limiter, deadline, deferred, panicking, locals, wire, outcome,
                  releases, closes, handled >>

\* the errors s.listener.Accept() can return: on a closed listener "use of
\* closed network connection", on an open one any other (too many open files,
\* a connection aborted before it was accepted)
AcceptErrors(l) == IF l = "closed" THEN {"closed"} ELSE {"other"}

LoopExitsOnAnyError(ctxState, err) == TRUE

\* a loop that takes every error of Accept for a passing one
LoopExitsNever(ctxState, err) == FALSE

\* the two tests of the error branch: s.ctx.Err() != nil, then
\* strings.Contains(err.Error(), "use of closed network connection")
LoopExits(ctxState, err) == ctxState = "done" \/ err = "closed"

\* s.listener.Accept() fails: the loop returns if either test holds, and
\* otherwise goes on to log the error
AcceptFails(err) ==
  /\ ~crashed
  /\ acceptLoop = "accept"
  /\ err \in AcceptErrors(listener)
  /\ acceptLoop' = IF LoopExits(ctx, err) THEN "stopped" ELSE "logged"
  /\ UNCHANGED << listener, listenerCloses, ctx, shutdownOnce, shutdownLog, callers, crashed >>
  /\ UNCHANGED << powVars, sharedVars, connVars, handlerVars >>

\* s.logger.Errorf("Failed to accept connection: %v", err); continue
AcceptRetry ==
  /\ ~crashed
  /\ acceptLoop = "logged"
  /\ acceptLoop' = "accept"
  /\ UNCHANGED << listener, listenerCloses, ctx, shutdownOnce, shutdownLog, callers, crashed >>
  /\ UNCHANGED << powVars, sharedVars, connVars, handlerVars >>

\* the loop admits or sheds the connection it holds and goes back to Accept
Admit(conn) ==
  /\ ~crashed
  /\ acceptLoop = "select"
  /\ pc[conn] = "accepted"
  /\ Select(conn)
  /\ acceptLoop' = "accept"
  /\ UNCHANGED << listener, listenerCloses, ctx, shutdownOnce, shutdownLog, callers, crashed >>
  /\ UNCHANGED << powVars, config, limiterMap, buckets, clock, accepted, handlerVars,
                  remote, peer, limiter, deadline, panicking, locals, outcome, releases,
                  handled >>

NextLifecycle ==
  \/ StartListen
  \/ StartSpawn
  \/ Signal
  \/ StartWake
  \/ \E p \in Callers : Call(p)
  \/ \E p \in Callers : OnceDo(p)
  \/ \E p \in Callers : BodyClose(p)
  \/ \E p \in Callers : \E how \in {"drained", "timeout"} : BodyDrain(p, how)
  \/ \E p \in Callers : BodyCancel(p)
  \/ \E p \in Callers : OnceDone(p)
  \/ \E conn \in Conns, addrIP \in NextIPs(accepted) : AcceptReturns(conn, addrIP)
  \/ \E err \in {"closed", "other"} : AcceptFails(err)
  \/ AcceptRetry
  \/ \E conn \in Conns : Admit(conn)
  \/ \E conn \in Conns : GetLimiter(conn)
  \/ \E conn \in Conns : \E health \in Health(conn) : LimiterAllow(conn, health)
  \/ \E conn \in Conns, deadlineOk \in BOOLEAN :
       \E health \in Health(conn) : InvokeHandler(conn, deadlineOk, health)
  \/ \E conn \in Conns : MockHandlerReturn(conn)
  \/ \E conn \in Conns : \E health \in Health(conn) : Unwind(conn, health)

SpecLifecycle == InitLifecycle /\ [][NextLifecycle]_vars

(***************************************************************************)
(* The server of Spec with what the runtime guarantees about progress: a    *)
(* goroutine that can run does run, and a read whose deadline is set fails  *)
(* with a timeout when the deadline passes. Nothing is assumed of clients.  *)
(***************************************************************************)
\* a read that no deadline ever ends
ReadUnbounded(dl) == FALSE

\* conn.Read returns without any help from the client: the deadline of
\* SetDeadline passes, or SetDeadline failed, which it does on a TCP
\* connection only when the socket is already closed, and then Read fails
\* at once
ReadBounded(dl) == dl \in {"set", "failed"}

\* readClientResponse fails for a client that sends nothing, and the unit
\* returns through the handler's error path
TimedOut(conn) ==
  /\ ReadBounded(deadline[conn])
  /\ \E quote \in GetQuote(Quotes) :
       ReadAndAnswer(conn, [stream |-> << >>, stays |-> TRUE], quote)

\* the steps of unit conn that wait for nobody but the scheduler and the
\* clock: everything but a read that the client ends
UnitRuns(conn) ==
  \/ GetLimiter(conn)
  \/ \E health \in Health(conn) : LimiterAllow(conn, health)
  \/ \E deadlineOk \in BOOLEAN : \E health \in Health(conn) :
       InvokeHandler(conn, deadlineOk, health)
  \/ MockHandlerReturn(conn)
  \/ \E health \in Health(conn) : Unwind(conn, health)
  \/ TimedOut(conn)

\* the server with the shipped handler, two permits and a limiter that
\* refuses a second connection from an address, with a handler that sleeps,
\* or with one permit and a handler that panics
InitLive ==
  /\ Init
  /\ config \in { [MaxConnections |-> 2, RateLimitEvery100MS |-> 1, handler |-> "H"],
                  [MaxConnections |-> 2, RateLimitEvery100MS |-> 2, handler |-> "MockHandler"],
                  [MaxConnections |-> 1, RateLimitEvery100MS |-> 2,
                   handler |-> "MockHandlerWithPanic"] }

\* the steps of Spec without the passing of time between them, which only
\* refills the limiters
NextLive ==
  \/ \E conn \in Conns, addrIP \in NextIPs(accepted) : Accept(conn, addrIP)
  \/ \E conn \in Conns : UnitRuns(conn)
  \/ \E conn \in Conns :
       \E client \in ClientBehaviours(locals[conn].challenge), quote \in GetQuote(Quotes) :
         ReadAndAnswer(conn, client, quote)

SpecLive == InitLive /\ [][NextLive]_vars /\ \A conn \in Conns : WF_vars(UnitRuns(conn))

\* the steps of caller p that wait for nobody but the scheduler, the Once and
\* the timer of the drain wait: all but the decision to call Shutdown
CallerRuns(p) ==
  \/ p = "Start" /\ (StartListen \/ StartSpawn \/ StartWake)
  \/ OnceDo(p)
  \/ BodyClose(p)
  \/ \E how \in {"drained", "timeout"} : BodyDrain(p, how)
  \/ BodyCancel(p)
  \/ OnceDone(p)

\* the server of SpecLifecycle with its single permit
InitLifecycleLive == InitLifecycle /\ config.MaxConnections = 1

\* the steps of SpecLifecycle with one direct caller of Shutdown beside Start
NextLifecycleLive == NextLifecycle /\ callers'["caller2"] = "idle"

\* the life of the server with what the runtime guarantees about progress:
\* goroutines that can run do run, the accept loop among them once its
\* listener is closed; nothing is assumed of the signal, of the caller
\* deciding to call Shutdown, or of clients connecting
SpecLifecycleLive ==
  InitLifecycleLive /\ [][NextLifecycleLive]_vars
    /\ (\A conn \in Conns : WF_vars(UnitRuns(conn) \/ Admit(conn)))
    /\ (\A p \in Callers : WF_vars(CallerRuns(p)))
    /\ WF_vars(AcceptRetry \/ \E err \in {"closed", "other"} : AcceptFails(err))
(***************************************************************************)
(* The random source of the PoW engine under concurrent units. The handler  *)
(* is one object and so is its engine: every unit calls                     *)
(* h.pow.GenerateChallenge() on the same *rand.Rand, which rand.New makes   *)
(* without a lock. Int63 reads the state of the source and writes it back,  *)
(* and another unit can be between the two.                                 *)
(***************************************************************************)
\* what p.rng.Int63() can do for a unit that read the state read, when the
\* state is now and others tells whether another unit is inside Int63: alone,
\* the next value of the stream; in a race, any value of the stream with the
\* source left in any of the states the two writes can leave, or the index
\* panic of a source whose positions were torn
Int63Outcomes(read, now, others) ==
  IF read = now /\ ~others
    THEN {[panics |-> FALSE, value |-> RngStream[(read % Len(RngStream)) + 1],
           state |-> read + 1]}
    ELSE {[panics |-> p, value |-> v, state |-> s] :
            p \in BOOLEAN, v \in {RngStream[i] : i \in 1..Len(RngStream)},
            s \in {read + 1, now, now + 1}}

InitRace ==
  /\ Init
  /\ config.handler = "H"

\* conn.SetDeadline and the call of HandleConnection, up to the read of the
\* source's state inside p.rng.Int63()
RngRead(conn, deadlineOk) ==
  /\ pc[conn] = "handle"
  /\ pc' = [pc EXCEPT ![conn] = "rng"]
  /\ handled' = [handled EXCEPT ![conn] = @ + 1]
  /\ deadline' = [deadline EXCEPT ![conn] = IF deadlineOk THEN "set" ELSE "failed"]
  /\ rngReads' = [rngReads EXCEPT ![conn] = rngCalls]
  /\ UNCHANGED aloneVars
  /\ UNCHANGED << difficulty, vcArgs, vcCalls, vcResult, rngCalls, generated, sharedVars >>
  /\ UNCHANGED << remote, peer, limiter, deferred, panicking, locals, wire, outcome,
                  releases, closes >>

\* the write of the source's state and the return of Int63, then the rest of
\* GenerateChallenge and the send of the challenge
RngWrite(conn, got, health) ==
  /\ pc[conn] = "rng"
  /\ rngReads' = [rngReads EXCEPT ![conn] = NoRead]
  /\ rngCalls' = got.state
  /\ IF got.panics
       THEN /\ pc' = [pc EXCEPT ![conn] = "defer"]
            /\ panicking' = [panicking EXCEPT ![conn] = TRUE]
            /\ outcome' = [outcome EXCEPT ![conn] = "panic"]
            /\ health = "up"
            /\ UNCHANGED << locals, wire, peer >>
       ELSE /\ locals' = [locals EXCEPT ![conn].challenge = FormatHex(got.value)]
            /\ peer' = [peer EXCEPT ![conn] = health]
            /\ wire' = [wire EXCEPT ![conn] =
                          Written(conn, health, Line(PrefixChallenge \o FormatHex(got.value)))]
            /\ IF health = "up"
                 THEN /\ pc' = [pc EXCEPT ![conn] = "read"]
                      /\ UNCHANGED outcome
                 ELSE /\ pc' = [pc EXCEPT ![conn] = "defer"]
                      /\ outcome' = [outcome EXCEPT ![conn] = "send failed"]
            /\ UNCHANGED panicking
  /\ UNCHANGED aloneVars
  /\ UNCHANGED << difficulty, vcArgs, vcCalls, vcResult, generated, sharedVars >>
  /\ UNCHANGED << remote, limiter, deadline, deferred, releases, closes, handled >>

NextRace ==
  \/ \E conn \in Conns, addrIP \in NextIPs(accepted) : Accept(conn, addrIP)
  \/ \E conn \in Conns : GetLimiter(conn)
  \/ \E conn \in Conns : \E health \in Health(conn) : LimiterAllow(conn, health)
  \/ \E conn \in Conns, deadlineOk \in BOOLEAN : RngRead(conn, deadlineOk)
  \/ \E conn \in Conns : \E health \in Health(conn) :
       \E got \in Int63Outcomes(rngReads[conn], rngCalls,
                                \E other \in Conns \ {conn} : rngReads[other] # NoRead) :
         RngWrite(conn, got, health)

SpecRace == InitRace /\ [][NextRace]_vars

(***************************************************************************)
(* Properties.                                                              *)
(***************************************************************************)
\* the unit of conn was spawned: the connection got an admission permit
Admitted(conn) == pc[conn] \notin {"idle", "shed"}

\* the limiter let the unit of conn through
PassedLimiter(conn) == pc[conn] \in {"handle", "read", "sleep"} \/ handled[conn] >= 1

\* a QUOTE line was written to conn
QuoteSent(conn) == \E i \in 1..Len(wire[conn]) : HasPrefix(wire[conn][i], PrefixQuote)

\* the rate-limit text was written to conn
TooManySent(conn) == \E i \in 1..Len(wire[conn]) : wire[conn][i] = MsgOnManyReq

\* number of leading '0' characters of a hexadecimal text
LeadingZeros(hexText) ==
  IF \A i \in 1..Len(hexText) : hexText[i] = 48
    THEN Len(hexText)
    ELSE (CHOOSE i \in 1..Len(hexText) :
            hexText[i] # 48 /\ \A j \in 1..(i - 1) : hexText[j] = 48) - 1

\* C1: a QUOTE line is on a connection only if the handler of that connection
\* validated, with result true, the challenge it sent on that connection
\* against the trimmed line it read from that connection; a connection that
\* was shed, rate limited, failed to read or failed validation has no QUOTE line.
C1_QuoteOnlyAfterValidation ==
  \A conn \in Conns :
    /\ QuoteSent(conn) =>
         /\ Admitted(conn) /\ handled[conn] = 1 /\ outcome[conn] = "ok"
         /\ locals[conn].validated /\ locals[conn].valid
         /\ wire[conn][1] = Line(PrefixChallenge \o locals[conn].challenge)
         /\ locals[conn].solution = TrimSpace(locals[conn].line)
         /\ LeadingZeros(HashStr(locals[conn].challenge \o locals[conn].solution)) >= difficulty
    /\ ( \/ pc[conn] = "shed"
         \/ outcome[conn] \in {"rate limited", "read failed"}
         \/ (locals[conn].validated /\ ~locals[conn].valid) ) => ~QuoteSent(conn)

\* C1 witness: a QUOTE line is on one connection while the handler of another
\* connection, which was sent a different challenge, waits for its solution
C1_Witness ==
  \E conn \in Conns, other \in Conns :
    /\ QuoteSent(conn)
    /\ pc[other] = "read"
    /\ locals[other].challenge # locals[conn].challenge

\* C2: the permits outstanding never exceed MaxConnections, they are the
\* permits of the units that have not released yet, and the handler runs for
\* at most MaxConnections connections at once.
C2_PermitsWithinCeiling ==
  /\ semaphore <= config.MaxConnections
  /\ semaphore = Cardinality({conn \in Conns : Admitted(conn) /\ releases[conn] = 0})
  /\ Cardinality({conn \in Conns : pc[conn] \in {"read", "sleep"}}) <= config.MaxConnections

\* C2 witness: every permit is out, a handler is running and a connection was shed
C2_Witness ==
  /\ semaphore = config.MaxConnections
  /\ \E conn \in Conns : pc[conn] \in {"read", "sleep"}
  /\ \E conn \in Conns : pc[conn] = "shed"

\* C3: an admitted unit releases its permit at most once and closes its socket
\* at most once, neither before it unwinds, and both have happened exactly once
\* when the unit is gone, however handling ended.
C3_ReleaseAndCloseOnce ==
  \A conn \in Conns :
    /\ releases[conn] <= 1 /\ closes[conn] <= 1
    /\ pc[conn] \in {"start", "allow", "handle", "read", "sleep"} =>
         releases[conn] = 0 /\ closes[conn] = 0
    /\ pc[conn] = "defer" => deferred[conn] # << >>
    /\ pc[conn] = "done" =>
         /\ releases[conn] = 1 /\ closes[conn] = 1 /\ deferred[conn] = << >>
         /\ outcome[conn] \in {"ok", "handler error", "send failed", "read failed",
                               "rate limited", "panic"}

\* C3 witness: a unit whose handler panicked is gone
C3_Witness ==
  \E conn \in Conns :
    pc[conn] = "done" /\ outcome[conn] = "panic" /\ releases[conn] = 1 /\ closes[conn] = 1

\* C4: a connection accepted while no permit is free is closed at once; the
\* handler is not invoked for it, nothing is written to it, it gets no limiter,
\* the registry holds entries only for addresses of units that asked for one,
\* and every token missing from a bucket was taken by a unit the limiter let through.
C4_ShedTouchesNothing ==
  /\ \A conn \in Conns :
       pc[conn] = "shed" =>
         /\ closes[conn] = 1 /\ wire[conn] = << >> /\ handled[conn] = 0
         /\ limiter[conn] = NoLimiter /\ releases[conn] = 0 /\ deferred[conn] = << >>
  /\ DOMAIN limiterMap \subseteq
       {LimiterKey(remote[conn]) : conn \in {d \in Conns : Admitted(d) /\ pc[d] # "start"}}
  /\ \A id \in DOMAIN buckets :
       buckets[id].tokens
         + Cardinality({conn \in Conns : PassedLimiter(conn) /\ limiter[conn] = id})
       >= config.RateLimitEvery100MS

\* C4 witness: a connection was shed and the registry has no entry for its address
C4_Witness ==
  \E conn \in Conns :
    /\ pc[conn] = "shed"
    /\ closes[conn] = 1
    /\ LimiterKey(remote[conn]) \notin DOMAIN limiterMap

\* C5 as written: with ceiling K, when the (K+1)-th of K+1 simultaneous
\* connections was shed and the K units are gone, exactly K connections were
\* handed to the handler.
C5_ExactlyKHandled ==
  ( /\ config.MaxConnections + 1 <= MaxConns
    /\ pc[config.MaxConnections + 1] = "shed"
    /\ \A conn \in 1..config.MaxConnections : pc[conn] = "done" )
  => Cardinality({conn \in 1..(config.MaxConnections + 1) : handled[conn] >= 1})
       = config.MaxConnections

\* C5 amended: with ceiling K, while none of the first K connections has
\* released its permit the (K+1)-th accepted connection is shed; a shed
\* (K+1)-th connection is closed with nothing written to it and the first K
\* are admitted to units, each of which is handed to the handler unless the
\* rate limiter of its address denied it.
C5_ExactlyKAdmitted ==
  LET ceiling == config.MaxConnections
  IN ceiling + 1 <= MaxConns =>
       /\ ( accepted >= ceiling + 1 /\ \A conn \in 1..ceiling : releases[conn] = 0 )
            => pc[ceiling + 1] = "shed"
       /\ pc[ceiling + 1] = "shed" =>
            /\ closes[ceiling + 1] = 1 /\ wire[ceiling + 1] = << >>
            /\ handled[ceiling + 1] = 0
            /\ \A conn \in 1..ceiling :
                 /\ Admitted(conn)
                 /\ handled[conn] <= 1
                 /\ pc[conn] \in {"defer", "done"} =>
                      (handled[conn] = 1) # (outcome[conn] = "rate limited")

\* C5 witness: the (K+1)-th connection was shed and the K before it were
\* handed to the handler
C5_Witness ==
  /\ config.MaxConnections + 1 <= MaxConns
  /\ pc[config.MaxConnections + 1] = "shed"
  /\ \A conn \in 1..config.MaxConnections : handled[conn] = 1

\* the connections accepted up to conn from the address of conn
AttemptsBefore(conn) == {d \in 1..conn : remote[d].IP = remote[conn].IP}

\* C6: with burst B and no refill, among admitted connections from one address
\* the first B in order of arrival pass the limiter and get no rate-limit text,
\* and the (B+1)-th is denied: its handler is not invoked, nothing but
\* MsgOnManyReq is written to it, and a client still connected got exactly that.
C6_FirstBPassThenDenied ==
  \A conn \in Conns :
    ( /\ conn <= accepted
      /\ clock = 0
      /\ \A d \in AttemptsBefore(conn) : Admitted(d)
      /\ PassedLimiter(conn) \/ outcome[conn] = "rate limited" )
    => /\ Cardinality(AttemptsBefore(conn)) <= config.RateLimitEvery100MS =>
            outcome[conn] # "rate limited" /\ ~TooManySent(conn)
       /\ Cardinality(AttemptsBefore(conn)) = config.RateLimitEvery100MS + 1 =>
            /\ outcome[conn] = "rate limited" /\ handled[conn] = 0
            /\ wire[conn] \in {<< >>, << MsgOnManyReq >>}
            /\ (peer[conn] = "up" /\ pc[conn] = "defer") => wire[conn] = << MsgOnManyReq >>

\* C7: the registry is keyed by IP; the limiter stored for an address is the
\* first one made for it and the only one that exists; every unit past
\* getLimiterForIP holds the limiter stored for its address.
C7_OneLimiterPerIP ==
  /\ DOMAIN limiterMap \subseteq IPs
  /\ \A key \in DOMAIN limiterMap : limiterMap[key] = << key, 1 >>
  /\ DOMAIN buckets = {limiterMap[key] : key \in DOMAIN limiterMap}
  /\ \A conn \in Conns :
       IF Admitted(conn) /\ pc[conn] # "start"
         THEN /\ LimiterKey(remote[conn]) \in DOMAIN limiterMap
              /\ limiter[conn] = limiterMap[LimiterKey(remote[conn])]
         ELSE limiter[conn] = NoLimiter

\* C7 witness: two units from one address and different ports, past the race
\* on first access, are about to call Allow on the same limiter
C7_Witness ==
  \E conn \in Conns, other \in Conns :
    /\ conn # other
    /\ remote[conn].IP = remote[other].IP /\ remote[conn].Port # remote[other].Port
    /\ pc[conn] = "allow" /\ pc[other] = "allow"
    /\ limiter[conn] = limiter[other] /\ limiter[conn] # NoLimiter

\* C8: with cmd/server's configuration and difficulty, a client that is still
\* connected when its unit has finished handling was handed to the handler and
\* was sent its challenge, not the rate-limit text; if it answered with the
\* solver's nonce, validation accepted it and a second line, the quote, followed.
C8_ShippedExchange ==
  (config = ShippedConfig /\ difficulty = ShippedDifficulty) =>
    \A conn \in Conns :
      (pc[conn] = "defer" /\ peer[conn] = "up") =>
        /\ handled[conn] = 1
        /\ ~TooManySent(conn)
        /\ Len(wire[conn]) >= 1
        /\ ( /\ locals[conn].validated
             /\ locals[conn].solution = Itoa(SolverNonce(locals[conn].challenge)) ) =>
             (locals[conn].valid /\ Len(wire[conn]) = 2)

\* C9: ValidateChallenge returns true exactly when the hexadecimal digest of
\* challenge ++ solution has at least difficulty leading '0' characters; at
\* difficulty 0 it returns true for every pair.
C9_ValidateIffLeadingZeros ==
  vcCalls = 1 =>
    /\ vcResult <=> (LeadingZeros(HashStr(vcArgs[1] \o vcArgs[2])) >= difficulty)
    /\ difficulty = 0 => vcResult

\* C9 witness: an engine of the highest difficulty accepted a pair with a
\* non-empty challenge
C9_Witness ==
  /\ vcCalls = 1
  /\ difficulty = MaxDifficulty
  /\ vcArgs[1] # << >>
  /\ vcResult

\* C10: ValidateChallenge returns false for the empty challenge, whatever the
\* solution and the difficulty (here: at any difficulty of at least 1).
C10_EmptyChallengeRejected ==
  (vcCalls = 1 /\ vcArgs[1] = << >> /\ difficulty >= 1) => ~vcResult

(***************************************************************************)
(* The protocol handler on its own (SpecHandler).                           *)
(***************************************************************************)
\* the peer's stream has no newline within the first maxReadSize bytes, so
\* the read of the solution line fails
ReadFails == \A i \in 1..Min(Len(hcConn.stream), MaxReadSize) : hcConn.stream[i] # 10

\* HandleConnection has returned after ValidateChallenge answered verdict
ReturnedAfterVerdict(verdict) ==
  /\ hcStep = "returned"
  /\ hcCalls.ValidateChallenge = 1
  /\ hcLocals.valid = verdict

C13_ChallengeWriteFailureEnds ==
  (hcWrites # << >> /\ ~hcWrites[1].ok) =>
    /\ hcStep = "returned"
    /\ hcErr = << "failed to send challenge", "failed to send message", "write error" >>
    /\ Len(hcWrites) = 1
    /\ hcCalls = [NoCalls EXCEPT !.GenerateChallenge = 1]

C13_Witness ==
  /\ hcWrites # << >>
  /\ ~hcWrites[1].ok
  /\ hcStep = "returned"
  /\ hcConn.stream # << >>

\* C14: if the read of the solution line fails (the stream ends, by error,
\* deadline or end of stream, without a newline in its first maxReadSize
\* bytes), HandleConnection returns an error that names a read failure and no
\* send failure, after the challenge it writes nothing, and it calls neither
\* ValidateChallenge nor GetQuote.
C14_ReadFailureEnds ==
  (ReadFails /\ hcCalls.Read >= 1) =>
    /\ hcStep = "returned"
    /\ hcCalls.Read = 1
    /\ hcErr # << >>
    /\ hcErr[1] = "failed to read client response"
    /\ \A i \in 1..Len(hcErr) : hcErr[i] \notin {"failed to send message",
                                                 "failed to send challenge",
                                                 "failed to send validate",
                                                 "failed to send quote"}
    /\ Len(hcWrites) = 1
    /\ hcCalls.ValidateChallenge = 0
    /\ hcCalls.GetQuote = 0

C14_Witness ==
  /\ ReadFails
  /\ hcCalls.Read = 1
  /\ Len(hcConn.stream) > MaxReadSize

(***************************************************************************)
(* Panics in a connection unit (Spec).                                      *)
(***************************************************************************)
\* the handling of conn panicked and the panic has been recovered
Recovered(conn) == outcome[conn] = "panic" /\ ~panicking[conn]

\* the tokens the limiter of unit conn holds for an Allow at the present time
TokensNow(conn) ==
  Min(config.RateLimitEvery100MS,
      buckets[limiter[conn]].tokens + (clock - buckets[limiter[conn]].last))

\* C15: a panic in a unit never leaves the unit (while it is in flight the
\* unit is unwinding with recoverPanic still to run, so the process does not
\* crash), the unit's permit is released by the time the panic is recovered,
\* and the accept loop goes on: once some unit has panicked, the next
\* connection is admitted if a permit is free, and an admitted unit that
\* finds a token is handed to the handler.
C15_PanicContained ==
  [][ /\ \A conn \in Conns :
           /\ panicking'[conn] =>
                /\ pc'[conn] = "defer"
                /\ \E i \in 1..Len(deferred'[conn]) : deferred'[conn][i] = "recoverPanic"
           /\ Recovered(conn)' => (releases'[conn] = 1 /\ pc'[conn] \in {"defer", "done"})
      /\ (\E conn \in Conns : outcome[conn] = "panic") =>
           \A other \in Conns :
             /\ (pc[other] = "idle" /\ pc'[other] # "idle"
                   /\ semaphore < config.MaxConnections) => pc'[other] = "start"
             /\ (pc[other] = "allow" /\ pc'[other] # "allow" /\ TokensNow(other) >= 1) =>
                  pc'[other] = "handle"
             /\ (pc[other] = "handle" /\ pc'[other] # "handle") => handled'[other] = 1
    ]_vars

\* the first connection's unit panicked; the second connection, which can
\* only have got the single permit after that unit released it, was handed to
\* the handler
C15_Witness ==
  /\ config.MaxConnections = 1
  /\ Recovered(1)
  /\ releases[1] = 1
  /\ Admitted(2)
  /\ handled[2] = 1

\* C16: when the handling of a connection has panicked and the panic has been
\* recovered, what the unit wrote to a client that is still connected is
\* exactly the one line MsgOnErrInternal, and it was written before the
\* unit's conn.Close(): a panic in flight has written nothing yet, and when
\* recoverPanic runs the socket is not yet closed.
C16_OneInternalErrorLine ==
  [][ \A conn \in Conns :
        /\ (panicking[conn] /\ ~panicking'[conn]) =>
             /\ closes[conn] = 0
             /\ wire[conn] = << >>
             /\ peer'[conn] = "up" => wire'[conn] = << MsgOnErrInternal >>
             /\ peer'[conn] = "down" => wire'[conn] = << >>
        /\ (Recovered(conn) /\ pc'[conn] # "done") => wire'[conn] = wire[conn]
        /\ (Recovered(conn) /\ pc[conn] = "defer" /\ peer[conn] = "up") =>
             wire[conn] = << MsgOnErrInternal >>
    ]_vars

C16_Witness ==
  \E conn \in Conns :
    /\ Recovered(conn)
    /\ pc[conn] = "defer"
    /\ closes[conn] = 0
    /\ wire[conn] = << MsgOnErrInternal >>

\* C17 as written: the line a unit sends when it contained a panic starts
\* with the ERROR: prefix marker.
C17_InternalFaultHasErrorPrefix ==
  \A conn \in Conns :
    Recovered(conn) /\ wire[conn] # << >> => HasPrefix(wire[conn][1], PrefixError)

\* C17 as the code has it: the line a unit sends when it contained a panic is
\* one terminated line of fixed text that starts with none of the three prefix
\* markers, the ERROR: marker included.
C17_InternalFaultLineUnprefixed ==
  \A conn \in Conns :
    Recovered(conn) /\ wire[conn] # << >> =>
      /\ Len(wire[conn]) = 1
      /\ wire[conn][1][Len(wire[conn][1])] = 10
      /\ \A prefix \in {PrefixError, PrefixChallenge, PrefixQuote} :
           ~HasPrefix(wire[conn][1], prefix)

C17_Witness ==
  /\ config.MaxConnections = 2
  /\ \E conn \in Conns :
       /\ Recovered(conn)
       /\ wire[conn] # << >>
       /\ ~HasPrefix(wire[conn][1], PrefixError)

\* the body of Shutdown has run from its first statement to its last
BodyComplete ==
  /\ Len(shutdownLog) = 3
  /\ shutdownLog[1] = "close"
  /\ shutdownLog[2] \in {"drained", "timeout"}
  /\ shutdownLog[3] = "cancel"

\* C18: however many goroutines call Shutdown, one after another or at once,
\* Start after the signal among them, the listener is closed at most once, at
\* most one caller is inside the body, the body's steps are never repeated
\* (close, then the drain wait, then cancel), and when any call has returned
\* the body has run exactly once, from its first step to its last.
C18_ShutdownBodyOnce ==
  /\ listenerCloses <= 1
  /\ Cardinality({p \in Callers : callers[p] \in {"close", "drain", "cancel", "unlock"}}) <= 1
  /\ Len(shutdownLog) <= 3
  /\ \A i \in 1..Len(shutdownLog) :
       shutdownLog[i] \in (CASE i = 1 -> {"close"}
                             [] i = 2 -> {"drained", "timeout"}
                             [] OTHER -> {"cancel"})
  /\ \A p \in Callers : callers[p] = "returned" => BodyComplete /\ listenerCloses = 1

\* C18 witness: Start and both other callers have returned from Shutdown
C18_Witness ==
  /\ \A p \in Callers : callers[p] = "returned"
  /\ BodyComplete
  /\ listenerCloses = 1

\* the unit of conn has started and has not yet called s.wg.Done()
InFlight(conn) == pc[conn] \notin {"idle", "accepted", "shed", "done"}

\* C19: the drain wait of Shutdown ends as drained only when no unit is in
\* flight, so a call of Shutdown returns only when the units that were in
\* flight have finished or the wait has timed out; and once a call has
\* returned, Accept returns no further connection.
C19_ShutdownWaitsThenRefuses ==
  [][ /\ Len(shutdownLog') = 2 /\ Len(shutdownLog) = 1 /\ shutdownLog'[2] = "drained"
         => \A conn \in Conns : ~InFlight(conn)
      /\ \A p \in Callers : callers'[p] = "returned" => BodyComplete'
      /\ (\E p \in Callers : callers[p] = "returned") => accepted' = accepted ]_vars

\* C19 witness: Shutdown has been called and waits in its select while a
\* unit is inside the handler
C19_Witness ==
  /\ \E p \in Callers : callers[p] = "drain"
  /\ \E conn \in Conns : pc[conn] = "sleep"
  /\ wg > 0

C21_DifficultyMonotone ==
  (vcCalls = 1 /\ difficulty >= 1) =>
    /\ vcResult => ValidateChallenge(difficulty - 1, vcArgs[1], vcArgs[2])
    /\ solvePoW(vcArgs[1], difficulty) <= MaxNonce =>
         /\ solvePoW(vcArgs[1], difficulty - 1) <= solvePoW(vcArgs[1], difficulty)
         /\ Len(Itoa(solvePoW(vcArgs[1], difficulty - 1)))
              <= Len(Itoa(solvePoW(vcArgs[1], difficulty)))

\* C21 witness: an accepted pair at a difficulty of at least 1, for a
\* challenge whose first nonce at that difficulty is larger and longer than
\* at the difficulty below
C21_Witness ==
  /\ vcCalls = 1
  /\ difficulty >= 1
  /\ vcResult
  /\ solvePoW(vcArgs[1], difficulty) <= MaxNonce
  /\ Len(Itoa(solvePoW(vcArgs[1], difficulty - 1))) < Len(Itoa(solvePoW(vcArgs[1], difficulty)))

C23_OneOfEach ==
  /\ hcCalls.GenerateChallenge <= 1
  /\ hcCalls.Read <= 1
  /\ hcCalls.ValidateChallenge <= 1
  /\ hcCalls.GetQuote <= 1
  /\ Len(hcWrites) <= 2
  /\ Len(hcWrites) = 2 => hcCalls.Read = 1
  /\ hcStep \notin {"idle", "challenge"} =>
       /\ hcCalls.GenerateChallenge = 1
       /\ Len(hcWrites) >= 1
       /\ Len(hcWrites[1].data) > Len(hcLocals.challenge)
       /\ SubSeq(hcWrites[1].data, Len(hcWrites[1].data) - Len(hcLocals.challenge),
                 Len(hcWrites[1].data)) = Line(hcLocals.challenge)

\* C23 witness: a full exchange has returned: one challenge, one read, one
\* validation, one write after the read
C23_Witness ==
  /\ hcStep = "returned"
  /\ hcCalls = [GenerateChallenge |-> 1, Read |-> 1, ValidateChallenge |-> 1, GetQuote |-> 1]
  /\ Len(hcWrites) = 2

\* C24: HandleConnection moves only forward through challenge, read,
\* validation, reply and return, one step at a time, and leaves that order
\* only to return with an error from a failed challenge write or a failed
\* read; a read is made only after the challenge write has succeeded, and
\* ValidateChallenge is called only after the read has returned a line.
C24_StepsInOrder ==
  [][ LET rank == [challenge |-> 1, read |-> 2, validate |-> 3, reply |-> 4, returned |-> 5]
      IN /\ \/ rank[hcStep'] = rank[hcStep] + 1
            \/ /\ hcStep \in {"challenge", "read"}
               /\ hcStep' = "returned"
               /\ hcErr' # << >>
         /\ hcCalls'.Read > hcCalls.Read =>
              hcStep = "read" /\ Len(hcWrites) = 1 /\ hcWrites[1].ok
         /\ hcCalls'.ValidateChallenge > hcCalls.ValidateChallenge =>
              /\ hcStep = "validate"
              /\ hcCalls.Read = 1
              /\ ~ReadString(hcConn.stream).err
              /\ hcLocals.solution = TrimSpace(ReadString(hcConn.stream).line) ]_vars

\* C24 witness: the handler has validated a line it read and is about to reply
C24_Witness ==
  /\ hcStep = "reply"
  /\ hcCalls.Read = 1
  /\ hcCalls.ValidateChallenge = 1
  /\ hcLocals.solution # << >>

\* C25: the read of the solution depends on the first maxReadSize bytes of
\* what the client sends and on nothing after them: when a newline is among
\* them the read succeeds and the solution is the line up to the first
\* newline, trimmed of white space, and that is what ValidateChallenge
\* judges; when none is among them the read fails, and nothing is validated.
C25_ReadWithinBudget ==
  hcCalls.Read >= 1 =>
    LET budget == SubSeq(hcConn.stream, 1, Min(Len(hcConn.stream), MaxReadSize))
        nl == {i \in 1..Len(budget) : budget[i] = 10}
    IN /\ ReadString(hcConn.stream) = ReadString(budget)
       /\ nl # {} =>
            /\ hcStep \in {"validate", "reply", "returned"}
            /\ hcErr = << >> \/ hcErr[1] # "failed to read client response"
            /\ \E first \in nl :
                 /\ \A i \in nl : first <= i
                 /\ hcLocals.solution = TrimSpace(SubSeq(budget, 1, first))
            /\ hcCalls.ValidateChallenge = 1 =>
                 hcLocals.valid =
                   ValidateChallenge(difficulty, hcLocals.challenge, hcLocals.solution)
       /\ nl = {} =>
            /\ hcStep = "returned"
            /\ hcErr # << >> /\ hcErr[1] = "failed to read client response"
            /\ hcCalls.ValidateChallenge = 0

\* C25 witness: a line of exactly maxReadSize bytes was read and its trimmed
\* content, one byte shorter than the line without its newline, validated
C25_Witness ==
  /\ Len(hcConn.stream) = MaxReadSize
  /\ hcCalls.ValidateChallenge = 1
  /\ Len(hcLocals.solution) = MaxReadSize - 2

\* C26 as written: while the handler of a unit is running, the deadline of
\* its connection is set, and it is not set for a unit the limiter has not
\* let through.
C26_DeadlineSetBeforeHandler ==
  \A conn \in Conns :
    /\ pc[conn] \in {"read", "sleep"} => deadline[conn] = "set"
    /\ pc[conn] \in {"start", "allow", "handle"} => deadline[conn] = "unset"

\* C27: each step of the body of Shutdown comes after the one before it: the
\* listener is closed first, with the context left as it is; the wait ends
\* next, on a closed listener, with the context left as it is; s.cancel()
\* comes last, after the wait has ended, and no other step of the body ends
\* the context.
C27_BodyInOrder ==
  [][ shutdownLog' # shutdownLog =>
        /\ Len(shutdownLog') = Len(shutdownLog) + 1
        /\ SubSeq(shutdownLog', 1, Len(shutdownLog)) = shutdownLog
        /\ shutdownLog'[Len(shutdownLog')] = "close" =>
             shutdownLog = << >> /\ listener' = "closed" /\ ctx' = ctx
        /\ shutdownLog'[Len(shutdownLog')] \in {"drained", "timeout"} =>
             shutdownLog = << "close" >> /\ listener = "closed" /\ ctx' = ctx
        /\ shutdownLog'[Len(shutdownLog')] = "cancel" =>
             /\ Len(shutdownLog) = 2
             /\ shutdownLog[1] = "close"
             /\ shutdownLog[2] \in {"drained", "timeout"}
             /\ listener = "closed"
             /\ ctx' = "done" ]_vars

\* C27 witness: the body has closed the listener and waited for a unit that
\* is now gone, the context is still active, and s.cancel() is next
C27_Witness ==
  /\ shutdownLog = << "close", "drained" >>
  /\ ctx = "active"
  /\ listener = "closed"
  /\ \E conn \in Conns : pc[conn] = "done"
  /\ \E p \in Callers : callers[p] = "cancel"

\* C28: no step of Shutdown touches a connection, a permit or the wait
\* group, so a drain wait that times out leaves the units as they are; and a
\* unit in flight when the wait has timed out goes on to its end, with its
\* permit released once and its socket closed once.
C28_TimeoutLeavesUnitsRunning ==
  /\ [][ (shutdownLog' # shutdownLog \/ callers' # callers) =>
            UNCHANGED << connVars, semaphore, wg >> ]_vars
  /\ \A conn \in Conns :
       (InFlight(conn) /\ Len(shutdownLog) >= 2 /\ shutdownLog[2] = "timeout")
         ~> (pc[conn] = "done" /\ releases[conn] = 1 /\ closes[conn] = 1)

\* C28 witness: Shutdown has returned after a timed out wait while a unit is
\* inside the handler, its socket open and its permit held
C28_Witness ==
  /\ BodyComplete
  /\ shutdownLog[2] = "timeout"
  /\ \E p \in Callers : callers[p] = "returned"
  /\ \E conn \in Conns : pc[conn] = "sleep" /\ closes[conn] = 0 /\ releases[conn] = 0

\* C29: the accept loop stops only from a failed Accept, and then only if
\* the context is cancelled or the listener is closed (the one case in which
\* Accept returns the listener-closed error); a failed Accept with neither
\* takes no permit, adds nothing to the wait group, starts no unit and
\* accepts no connection, and the loop is back at Accept afterwards.
C29_LoopExitsOnlyOnShutdown ==
  /\ [][ /\ (acceptLoop # "stopped" /\ acceptLoop' = "stopped") =>
              (acceptLoop = "accept" /\ (ctx = "done" \/ listener = "closed"))
         /\ (acceptLoop = "accept" /\ acceptLoop' \notin {"accept", "select"}) =>
              (acceptLoop' = "logged" <=> (ctx = "active" /\ listener = "open"))
         /\ (acceptLoop' = "logged" \/ acceptLoop = "logged") =>
              /\ acceptLoop' \in {"logged", "accept"} \/ acceptLoop = "accept"
              /\ acceptLoop' # acceptLoop => UNCHANGED << semaphore, wg, connVars >> ]_vars
  /\ (acceptLoop = "logged") ~> (acceptLoop = "accept")

\* C29 witness: Accept has failed on the open listener of a server that is
\* not shutting down, after a connection was admitted and while a permit is
\* free
C29_Witness ==
  /\ acceptLoop = "logged"
  /\ ctx = "active"
  /\ listener = "open"
  /\ shutdownOnce = "fresh"
  /\ \E conn \in Conns : pc[conn] = "done"
  /\ semaphore < config.MaxConnections

\* Start has returned from its call of Shutdown, and the body of Shutdown
\* has run once: the listener is closed and the context cancelled
Converged ==
  /\ callers["Start"] = "returned"
  /\ BodyComplete
  /\ listenerCloses = 1
  /\ listener = "closed"
  /\ ctx = "done"

\* C30: once Start has listened, a termination signal (the context is done
\* before the body has cancelled it) and a call of Shutdown from another
\* goroutine both lead to the same end: the one body of Shutdown has run, the
\* listener is closed, the context is cancelled and Start has returned; and
\* that end is kept.
C30_TriggersConverge ==
  /\ (listener # "nil" /\ ctx = "done" /\ Len(shutdownLog) < 3) ~> Converged
  /\ (listener # "nil" /\ \E p \in Callers \ {"Start"} : callers[p] # "idle") ~> Converged
  /\ [][Converged => Converged']_vars

\* C30 witness: Start has returned after a Shutdown called from another
\* goroutine, which has returned as well, and the accept loop has stopped
C30_Witness ==
  /\ Converged
  /\ callers["caller1"] = "returned"
  /\ acceptLoop = "stopped"

\* C31: no two connection units are inside the random source of the PoW
\* engine at the same time, that is, no unit reads the state of the source
\* between another unit's read of it and that unit's write.
C31_SourceUsedByOneUnit ==
  \A conn \in Conns, other \in Conns :
    (conn # other /\ rngReads[conn] # NoRead) => rngReads[other] = NoRead

\* C32: no call on the engine changes its difficulty; a call of
\* ValidateChallenge changes nothing of the engine, returns what the leading
\* zeros of the digest of challenge and solution and the difficulty
\* determine, and returns what the call before it returned, whatever calls
\* of GenerateChallenge came between; a call of GenerateChallenge leaves the
\* result of a validation as it is.
C32_ValidateStateless ==
  [][ /\ difficulty' = difficulty
      /\ vcCalls' # vcCalls =>
           /\ UNCHANGED << vcArgs, rngCalls, generated, rngReads >>
           /\ vcResult' <=> (LeadingZeros(HashStr(vcArgs[1] \o vcArgs[2])) >= difficulty)
           /\ vcCalls > 0 => (vcResult' <=> vcResult)
      /\ rngCalls' # rngCalls => UNCHANGED << vcArgs, vcCalls, vcResult >> ]_vars

\* C32 witness: a second validation has passed on an engine of difficulty 1
\* or more that has generated two challenges
C32_Witness ==
  /\ vcCalls = 2
  /\ Len(generated) = 2
  /\ difficulty >= 1
  /\ vcArgs[1] # << >>
  /\ vcResult

\* C33: once a call of Shutdown has returned from a body whose drain wait
\* ended as drained, no connection unit is in flight: none was left out of
\* the wait and none starts afterwards.
C33_NoUnitAfterDrainedReturn ==
  ( /\ \E p \in Callers : callers[p] = "returned"
    /\ Len(shutdownLog) >= 2
    /\ shutdownLog[2] = "drained" ) =>
    \A conn \in Conns : ~InFlight(conn)

\* C34: no call of Shutdown faults, whenever it is made after NewServer: no
\* caller panics and the process is not brought down.
C34_ShutdownNeverFaults ==
  /\ ~crashed
  /\ \A p \in Callers : callers[p] # "panicked"

\* C35: once the listener is closed the accept loop eventually has stopped,
\* and from then on it stays stopped, accepts no connection and starts no
\* unit; and the loop does not wait for a permit: with every permit held, its
\* select closes the connection it holds and takes none.
C35_LoopStopsAfterClose ==
  /\ (listener = "closed") ~> (acceptLoop = "stopped")
  /\ [][ /\ acceptLoop = "stopped" =>
              /\ acceptLoop' = "stopped"
              /\ accepted' = accepted
              /\ \A conn \in Conns : pc'[conn] = "start" => pc[conn] = "start"
         /\ ( /\ acceptLoop = "select"
              /\ acceptLoop' # "select"
              /\ semaphore = config.MaxConnections ) =>
              /\ acceptLoop' = "accept"
              /\ semaphore' = semaphore
              /\ wg' = wg
              /\ \E conn \in Conns : pc[conn] = "accepted" /\ pc'[conn] = "shed" ]_vars

\* C35 witness: the loop has stopped on the closed listener while the only
\* permit is held by a unit inside the handler, after it shed a connection
C35_Witness ==
  /\ acceptLoop = "stopped"
  /\ listener = "closed"
  /\ semaphore = config.MaxConnections
  /\ \E conn \in Conns : pc[conn] = "sleep"
  /\ \E conn \in Conns : pc[conn] = "shed"

\* C36: a caller of Shutdown that finds the body running stays inside Do
\* until the body is done, and whichever caller returns, the one that ran
\* the body or another, returns with the Once done, the listener closed, the
\* drain wait over and the context cancelled.
C36_CallersReturnAfterBody ==
  [][ \A p \in Callers :
        /\ (callers[p] = "once" /\ shutdownOnce = "running") => callers'[p] = "once"
        /\ (callers[p] # "returned" /\ callers'[p] = "returned") =>
             /\ shutdownOnce' = "done"
             /\ listener' = "closed"
             /\ Len(shutdownLog') = 3
             /\ shutdownLog'[2] \in {"drained", "timeout"}
             /\ ctx' = "done" ]_vars

\* C36 witness: two goroutines called Shutdown, both have returned, and
\* Start, woken by the cancelled context, is about to call it too
C36_Witness ==
  /\ callers["caller1"] = "returned"
  /\ callers["caller2"] = "returned"
  /\ callers["Start"] = "once"
  /\ shutdownOnce = "done"
  /\ BodyComplete

\* the lines of conn's wire that end an exchange: a quote, a rejection of the
\* handler, the rate-limit line, the internal-error line
TerminalLines(conn) ==
  {i \in 1..Len(wire[conn]) :
     \/ HasPrefix(wire[conn][i], PrefixQuote)
     \/ HasPrefix(wire[conn][i], PrefixError)
     \/ wire[conn][i] = MsgOnManyReq
     \/ wire[conn][i] = MsgOnErrInternal}

\* C37: on every connection a line that ends the exchange (a quote, an
\* ERROR: line, the rate-limit line or the internal-error line) is the last
\* line written, so there is at most one of them and nothing after it; and a
\* rate-limited connection gets the rate-limit line and nothing else.
C37_OneTerminalLine ==
  \A conn \in Conns :
    /\ TerminalLines(conn) \subseteq {Len(wire[conn])}
    /\ outcome[conn] = "rate limited" => wire[conn] \in {<< >>, << MsgOnManyReq >>}

\* C37 witness: of two connections from one address the first has its quote
\* as the last of two lines and the second, rate limited, has the rate-limit
\* line alone
C37_Witness ==
  /\ Len(wire[1]) = 2
  /\ HasPrefix(wire[1][2], PrefixQuote)
  /\ outcome[2] = "rate limited"
  /\ wire[2] = << MsgOnManyReq >>
====
